---- MODULE Spec2Model ----
(***************************************************************************)
(* A model of hedge's operator-template compiler and execution engine      *)
(* (src/src/python/backends/jit/__init__.py) and of the CUDA block         *)
(* partitioning and face storage map (src/src/python/cuda/                 *)
(* discretization.py).                                                     *)
(*                                                                         *)
(* Values of fields are integers; a Python dict is a function whose DOMAIN *)
(* is the set of keys that are present.  0-based Python indices are kept   *)
(* 0-based in the data and shifted by one where a TLA+ sequence is read.   *)
(***************************************************************************)
EXTENDS Integers, Sequences, FiniteSets, TLC

VARIABLES
    face_groups,    \* discr: flux kind -> number of face groups of that kind
    compiled,       \* sequence of Executor objects returned by compile()
    kernel_log,     \* every kernel handed to mod.compile(), in order
    compile_log,    \* every template handed to OperatorCompiler, in order
    heap,           \* dict objects: object id -> dict (name -> value)
    mapper,         \* call id -> ExecutionMapper of that call
    outputs,        \* call id -> values returned by the call
    mesh,           \* cuda Discretization: the mesh handed to __init__
    plan,           \* the preliminary plan of _make_plan
    part_count,     \* _partition_mesh: part_count of the next attempt
    partition,      \* self.partition: element id -> block number
    actual_plan,    \* actual_plan of _partition_mesh, self.plan on return
    blocks,         \* self.blocks: block number -> GPUBlock
    face_storage,   \* face storage objects: reference -> record
    fsm,            \* fsm of _build_face_storage_map: (el, face) -> reference
    fp_index,       \* face pairs of the current face group already handled
    gpu_pc,         \* position inside Discretization.__init__
    raised,         \* the exception that ended __init__, if any
    opp_call,       \* outcome of the last set_opposite call of a client
    device,         \* self.devdata: Parallelism -> occupancy of its plan
    kern,           \* a running gather_flux: kernel, face group, loop position
    fof,            \* flux%d_on_faces: flux index -> slot -> values written
    discr,          \* cuda Discretization: ldis, devdata, aligned_boundary_floats
    xfer,           \* a client's volume field: on the host, on the device, back
    embedding,      \* gpu_boundary_embedding: tag -> the array returned
    ab,             \* an AdamsBashforthTimeStepper and the calls made on it
    closable        \* a Closable and the calls made on it

jit_vars == <<face_groups, compiled, kernel_log, compile_log, heap, mapper, outputs>>

gpu_vars == <<mesh, plan, part_count, partition, actual_plan, blocks,
              face_storage, fsm, fp_index, gpu_pc, raised, opp_call, device,
              discr>>

kern_vars == <<kern, fof>>

xfer_vars == <<xfer, embedding>>

tool_vars == <<ab, closable>>

vars == <<jit_vars, gpu_vars, kern_vars, xfer_vars, tool_vars>>

(***************************************************************************)
(* Bounds                                                                  *)
(***************************************************************************)
MaxFaceGroups == 2      \* face groups of one kind on a discretization
MaxCompiles == 2        \* compile() calls on one discretization
MaxElements == 5        \* elements of a mesh
MaxPartCount == 2       \* largest part_count the partition search tries
MaxP == 3               \* largest flux_par.p of a preliminary plan
MaxS == 1               \* largest flux_par.s of a preliminary plan
MaxPe == 3              \* largest pe _make_plan tries

CallIds == {1, 2}       \* two calls of a compiled callable, interleaved

(***************************************************************************)
(* Small helpers                                                           *)
(***************************************************************************)
Range(s) == {s[i] : i \in DOMAIN s}

RECURSIVE SumSeq(_)
SumSeq(s) == IF s = <<>> THEN 0 ELSE s[1] + SumSeq(Tail(s))

RECURSIVE Flatten(_)
Flatten(ss) == IF ss = <<>> THEN <<>> ELSE ss[1] \o Flatten(Tail(ss))

\* all enumerations (iteration orders) of a finite set
Orders(S) == {s \in [1..Cardinality(S) -> S] : Range(s) = S}

\* position of the first element of s equal to x (0 if none)
RECURSIVE IndexOf(_, _)
IndexOf(s, x) ==
    IF s = <<>> THEN 0
    ELSE IF s[1] = x THEN 1
    ELSE LET r == IndexOf(Tail(s), x) IN IF r = 0 THEN 0 ELSE r + 1

\* s without repeated elements, first occurrences kept in order
RECURSIVE Dedup(_)
Dedup(s) ==
    IF s = <<>> THEN <<>>
    ELSE LET r == Dedup(SubSeq(s, 1, Len(s) - 1))
         IN IF s[Len(s)] \in Range(r) THEN r ELSE Append(r, s[Len(s)])

(***************************************************************************)
(* Flux kinds (jit/__init__.py 77-99)                                      *)
(***************************************************************************)
Tags == {"t1", "t2"}

InteriorFluxKind == [cls |-> "InteriorFluxKind", tag |-> "-"]
BoundaryFluxKind(tag) == [cls |-> "BoundaryFluxKind", tag |-> tag]

Kinds == {InteriorFluxKind} \cup {BoundaryFluxKind(t) : t \in Tags}

InteriorFluxKind_eq(self, other) == other.cls = self.cls

BoundaryFluxKind_eq_NoTag(self, other) == other.cls = self.cls

BoundaryFluxKind_eq(self, other) == other.cls = self.cls /\ other.tag = self.tag

\* kind1 == kind2 dispatches to the left operand's __eq__
KindEq(self, other) ==
    IF self.cls = "InteriorFluxKind"
    THEN InteriorFluxKind_eq(self, other)
    ELSE BoundaryFluxKind_eq(self, other)

(***************************************************************************)
(* Operator templates.  A flux operator is known by its set of field       *)
(* dependencies (FieldComponent(index, is_local)); a flux binding binds it *)
(* to a field (an object array of expressions) or to a BoundaryPair.       *)
(***************************************************************************)
ZERO == "0"                      \* the zero sentinel among field expressions
\* a faulty variant: nothing is recognised as zero
is_zero_Never(x) == FALSE

\* hedge.tools.is_zero / pymbolic.primitives.is_zero
is_zero(x) == x = ZERO

FieldNames == {"u", "v", "bc"}   \* input names a template declares

InputValue(name) == CASE name = "u" -> 3 [] name = "v" -> 5 [] OTHER -> 7

FieldComponent(index, is_local) == [index |-> index, is_local |-> is_local]

CentralFlux == [id |-> "central", lifting |-> FALSE,
                deps |-> {FieldComponent(0, TRUE), FieldComponent(0, FALSE)}]
VectorFlux  == [id |-> "vector", lifting |-> FALSE,
                deps |-> {FieldComponent(0, TRUE), FieldComponent(1, FALSE)}]
LiftFlux    == [id |-> "lift", lifting |-> TRUE,
                deps |-> {FieldComponent(0, FALSE)}]

IntFlux(op, field) ==
    [op |-> op, is_bpair |-> FALSE, field |-> field, bfield |-> <<>>, tag |-> "-"]
BdryFlux(op, field, bfield, tag) ==
    [op |-> op, is_bpair |-> TRUE, field |-> field, bfield |-> bfield, tag |-> tag]

FluxRef(i) == [k |-> "flux", i |-> i, name |-> "-"]
DiffRef(i) == [k |-> "diff", i |-> i, name |-> "-"]
FieldRef(n) == [k |-> "field", i |-> 0, name |-> n]

\* a template: its flux bindings, its differentiation operators (all of one
\* operator class, applied to diff_field) and, per output component, the
\* terms that are summed into it
Template(fluxes, diff_ops, diff_field, result) ==
    [fluxes |-> fluxes, diff_ops |-> diff_ops, diff_field |-> diff_field,
     result |-> result]

\* no flux at all: a gradient without flux terms
T_nabla == Template(<<>>, <<"dx", "dy">>, "u", << <<DiffRef(1)>>, <<DiffRef(2)>> >>)
\* StrongAdvectionOperator (pde.py 225-241): one interior, one boundary flux
T_advection ==
    Template(<< IntFlux(CentralFlux, <<"u">>),
                BdryFlux(CentralFlux, <<"u">>, <<"bc">>, "t1") >>,
             <<"dx">>, "u",
             << <<DiffRef(1), FluxRef(1), FluxRef(2)>> >>)
\* WeakPoissonOperator.grad_op_template (pde.py 937-957): zero boundary fields
T_poisson ==
    Template(<< IntFlux(CentralFlux, <<"u">>),
                BdryFlux(CentralFlux, <<"u">>, <<ZERO>>, "t1"),
                BdryFlux(LiftFlux, <<"u">>, <<ZERO>>, "t2") >>,
             <<>>, "u",
             << <<FieldRef("u"), FluxRef(1)>>, <<FluxRef(2), FluxRef(3)>> >>)
\* a system with a vector field: two interior fluxes, one of them used twice
T_system ==
    Template(<< IntFlux(VectorFlux, <<"u", "v">>),
                IntFlux(CentralFlux, <<"v">>),
                IntFlux(VectorFlux, <<"u", "v">>) >>,
             <<>>, "u",
             << <<FluxRef(1), FluxRef(2)>>, <<FluxRef(3)>> >>)
\* StrongWaveOperator (pde.py 363-404): boundary fluxes under two tags
T_wave ==
    Template(<< IntFlux(VectorFlux, <<"u", "v">>),
                BdryFlux(VectorFlux, <<"u", "v">>, <<"bc", "bc">>, "t1"),
                BdryFlux(VectorFlux, <<"u", "v">>, <<ZERO, "v">>, "t2") >>,
             <<"dx">>, "v",
             << <<DiffRef(1), FluxRef(1), FluxRef(2), FluxRef(3)>> >>)

Templates == {T_nabla, T_advection, T_poisson, T_system, T_wave}

(***************************************************************************)
(* Rewriting (Discretization.compile, jit/__init__.py 542-561).  Templates *)
(* are given with operators bound and boundary pairs formed; of the        *)
(* rewriting passes, EmptyFluxKiller changes them: a flux on a boundary    *)
(* without faces is replaced by zero, i.e. it drops out of the sums.       *)
(***************************************************************************)
EmptyFluxKiller(fgs, expr) ==
    LET dead(r) == /\ r.k = "flux"
                   /\ expr.fluxes[r.i].is_bpair
                   /\ fgs[BoundaryFluxKind(expr.fluxes[r.i].tag)] = 0
    IN [expr EXCEPT !.result =
            [j \in DOMAIN expr.result |->
                SelectSeq(expr.result[j], LAMBDA r : ~dead(r))]]

prepared_optemplate(fgs, optemplate) == EmptyFluxKiller(fgs, optemplate)

(***************************************************************************)
(* Flux collection (OperatorCompiler.get_contained_fluxes, 197-224)        *)
(***************************************************************************)
\* FluxCollector: the flux bindings that occur in the expression, each once
FluxCollector(expr) ==
    LET refs == SelectSeq(Flatten(expr.result), LAMBDA r : r.k = "flux")
    IN Dedup([n \in DOMAIN refs |-> expr.fluxes[refs[n].i]])

get_deps(field) == Range(field)

get_flux_deps(op_binding) ==
    IF op_binding.is_bpair
    THEN get_deps(op_binding.field) \cup get_deps(op_binding.bfield)
    ELSE get_deps(op_binding.field)

get_flux_kind(op_binding) ==
    IF op_binding.is_bpair
    THEN BoundaryFluxKind(op_binding.tag)
    ELSE InteriorFluxKind

get_contained_fluxes(expr) ==
    LET fc == FluxCollector(expr)
    IN [n \in DOMAIN fc |->
            [flux_expr |-> fc[n],
             kind |-> get_flux_kind(fc[n]),
             dependencies |-> get_flux_deps(fc[n])]]

(***************************************************************************)
(* The argument table of a flux batch (_get_flux_var_info, 246-295).       *)
(* FluxDependencyMapper returns a set: the order in which the inner loop   *)
(* visits it is not fixed by the language, so it is a parameter, ords,     *)
(* mapping each flux binding to one enumeration of its dependencies.       *)
(***************************************************************************)
arg_name_fmt(n) == <<"arg", n>>          \* "arg%d" % n
NoArg == <<"0", 0>>                      \* the entry 0 of a zero dependency
\* a faulty variant: the entry 0 is taken for a name
is_no_arg_Never(a) == FALSE

is_no_arg(a) == a[1] = "0"               \* "not arg_name"

IterationOrders(fluxes) ==
    LET FS == Range(fluxes)
        All == UNION {Orders(f.op.deps) : f \in FS}
    IN {o \in [FS -> All] : \A f \in FS : o[f] \in Orders(f.op.deps)}

fc_field_expr_of(flux_binding, fc) ==
    LET this_field_expr ==
            IF flux_binding.is_bpair
            THEN IF fc.is_local THEN flux_binding.field ELSE flux_binding.bfield
            ELSE flux_binding.field
    IN this_field_expr[fc.index + 1]

\* a faulty variant: the locality flag is part of the slot key
slot_key_ByLocality(fc_field_expr, fc) == <<fc_field_expr, fc.is_local>>

\* the key of field_expr_to_arg_name (284-291): the field expression alone
slot_key(fc_field_expr, fc) == fc_field_expr

RECURSIVE fvi_loop(_, _, _, _)
fvi_loop(fluxes, todo, fvi, field_expr_to_arg_name) ==
    IF todo = <<>> THEN fvi
    ELSE
    LET flux_idx == todo[1][1]
        fc == todo[1][2]
        fc_field_expr == fc_field_expr_of(fluxes[flux_idx + 1], fc)
        key == slot_key(fc_field_expr, fc)
    IN  IF is_zero(fc_field_expr)
        THEN fvi_loop(fluxes, Tail(todo),
                [fvi EXCEPT !.flux_idx_and_dep_to_arg_name =
                                (<<flux_idx, fc>> :> NoArg) @@ @],
                field_expr_to_arg_name)
        ELSE IF key \notin DOMAIN field_expr_to_arg_name
        THEN LET arg_name == arg_name_fmt(Len(fvi.arg_specs))
             IN fvi_loop(fluxes, Tail(todo),
                    [arg_specs |-> Append(fvi.arg_specs,
                                          <<fc_field_expr, fc.is_local>>),
                     arg_names |-> Append(fvi.arg_names, arg_name),
                     flux_idx_and_dep_to_arg_name |->
                        (<<flux_idx, fc>> :> arg_name)
                            @@ fvi.flux_idx_and_dep_to_arg_name],
                    (key :> arg_name) @@ field_expr_to_arg_name)
        ELSE fvi_loop(fluxes, Tail(todo),
                [fvi EXCEPT !.flux_idx_and_dep_to_arg_name =
                    (<<flux_idx, fc>> :> field_expr_to_arg_name[key]) @@ @],
                field_expr_to_arg_name)

_get_flux_var_info(fluxes, ords) ==
    LET todo == Flatten([n \in DOMAIN fluxes |->
                    [j \in DOMAIN ords[fluxes[n]] |->
                        <<n - 1, ords[fluxes[n]][j]>>]])
    IN fvi_loop(fluxes, todo,
            [arg_specs |-> <<>>, arg_names |-> <<>>,
             flux_idx_and_dep_to_arg_name |-> <<>>],
            <<>>)

(***************************************************************************)
(* Kernel generation (make_flux_batch_assign and its two branches,         *)
(* 238-244, 297-407, 409-508).  A kernel is what the generated source      *)
(* fixes: its parameter list and, per flux and dependency, the argument    *)
(* it reads (or the literal 0); an interior kernel writes both sides of a  *)
(* face pair, a boundary kernel the local side only.                       *)
(***************************************************************************)
gather_flux(sides, fluxes, fvi) ==
    [sides |-> sides,
     flux_count |-> Len(fluxes),
     arg_names |-> fvi.arg_names,
     reads |-> fvi.flux_idx_and_dep_to_arg_name]

make_interior_flux_batch_assign(names, fluxes, kind, ords) ==
    LET fvi == _get_flux_var_info(fluxes, ords)
    IN [op |-> "FluxBatchAssign", names |-> names, fluxes |-> fluxes,
        kind |-> kind, arg_specs |-> fvi.arg_specs,
        compiled_func |-> gather_flux(<<"loc", "opp">>, fluxes, fvi)]

make_boundary_flux_batch_assign(names, fluxes, kind, ords) ==
    LET fvi == _get_flux_var_info(fluxes, ords)
    IN [op |-> "FluxBatchAssign", names |-> names, fluxes |-> fluxes,
        kind |-> kind, arg_specs |-> fvi.arg_specs,
        compiled_func |-> gather_flux(<<"loc">>, fluxes, fvi)]

make_flux_batch_assign(names, fluxes, kind, ords) ==
    IF kind.cls = "BoundaryFluxKind"
    THEN make_boundary_flux_batch_assign(names, fluxes, kind, ords)
    ELSE make_interior_flux_batch_assign(names, fluxes, kind, ords)

\* what identifies a generated kernel: kind, ordered fluxes, argument specs
Signature(insn) ==
    [kind |-> insn.kind, fluxes |-> insn.fluxes, arg_specs |-> insn.arg_specs]

(***************************************************************************)
(* Instruction scheduling (OperatorCompilerBase of hedge.compiler, which   *)
(* OperatorCompiler extends at 192-244).  Differentiation operators go     *)
(* into one DiffBatchAssign, the collected fluxes into one FluxBatchAssign *)
(* per kind, each output component into an Assign; a Discard follows the   *)
(* last instruction that reads a name which is no output.                  *)
(***************************************************************************)
VarNames == <<"_expr0", "_expr1", "_expr2", "_expr3", "_expr4", "_expr5",
              "_expr6", "_expr7">>
get_var_name(n) == VarNames[n + 1]

\* the kinds of the flux records, one per class of equal kinds, in order
RECURSIVE BatchKinds(_)
BatchKinds(frs) ==
    IF frs = <<>> THEN <<>>
    ELSE LET r == BatchKinds(SubSeq(frs, 1, Len(frs) - 1))
             k == frs[Len(frs)].kind
         IN IF \E n \in DOMAIN r : KindEq(r[n], k) THEN r ELSE Append(r, k)

\* the fluxes batched under kind k
BatchFluxes(frs, k) ==
    LET sel == SelectSeq(frs, LAMBDA fr : KindEq(k, fr.kind))
    IN [n \in DOMAIN sel |-> sel[n].flux_expr]

\* number of fluxes in the batches before batch b
RECURSIVE BatchOffset(_, _, _)
BatchOffset(frs, kinds, b) ==
    IF b <= 1 THEN 0
    ELSE BatchOffset(frs, kinds, b - 1) + Len(BatchFluxes(frs, kinds[b - 1]))

Reads(insn) ==
    CASE insn.op = "Assign" -> Range(insn.expr)
      [] insn.op = "FluxBatchAssign" ->
            {insn.arg_specs[n][1] : n \in DOMAIN insn.arg_specs}
      [] insn.op = "DiffBatchAssign" -> {insn.field}
      [] OTHER -> {}

Writes(insn) ==
    CASE insn.op = "Assign" -> {insn.name}
      [] insn.op = "FluxBatchAssign" -> Range(insn.names)
      [] insn.op = "DiffBatchAssign" -> Range(insn.names)
      [] OTHER -> {}

LastUse(insns, name) ==
    LET uses == {n \in DOMAIN insns :
                    name \in Reads(insns[n]) \cup Writes(insns[n])}
    IN CHOOSE n \in uses : \A m \in uses : m <= n

\* the Discards that follow instruction idx
DiscardsAfter(insns, result, idx) ==
    LET names == SelectSeq(VarNames, LAMBDA v :
                    /\ \E n \in DOMAIN insns : v \in Writes(insns[n])
                    /\ v \notin Range(result)
                    /\ LastUse(insns, v) = idx)
    IN [n \in DOMAIN names |-> [op |-> "Discard", name |-> names[n]]]

WithDiscards(insns, result) ==
    Flatten([n \in DOMAIN insns |->
                <<insns[n]>> \o DiscardsAfter(insns, result, n)])

OperatorCompiler(expr, ords) ==
    LET frs == get_contained_fluxes(expr)
        kinds == BatchKinds(frs)
        nd == Len(expr.diff_ops)
        nf == Len(frs)
        diff_names == [n \in 1..nd |-> get_var_name(n - 1)]
        diff_insns ==
            IF nd = 0 THEN <<>>
            ELSE << [op |-> "DiffBatchAssign", names |-> diff_names,
                     operators |-> expr.diff_ops, field |-> expr.diff_field] >>
        batch_names(b) ==
            [n \in 1..Len(BatchFluxes(frs, kinds[b])) |->
                get_var_name(nd + BatchOffset(frs, kinds, b) + n - 1)]
        flux_insns ==
            [b \in DOMAIN kinds |->
                make_flux_batch_assign(batch_names(b),
                    BatchFluxes(frs, kinds[b]), kinds[b], ords)]
        \* the variable that holds a flux binding
        flux_var(fb) ==
            LET b == CHOOSE b \in DOMAIN kinds :
                        fb \in Range(BatchFluxes(frs, kinds[b]))
            IN batch_names(b)[IndexOf(BatchFluxes(frs, kinds[b]), fb)]
        term_var(r) ==
            CASE r.k = "flux" -> flux_var(expr.fluxes[r.i])
              [] r.k = "diff" -> diff_names[r.i]
              [] OTHER -> r.name
        result == [j \in DOMAIN expr.result |-> get_var_name(nd + nf + j - 1)]
        assign_insns ==
            [j \in DOMAIN expr.result |->
                [op |-> "Assign", name |-> result[j],
                 expr |-> [n \in DOMAIN expr.result[j] |->
                              term_var(expr.result[j][n])]]]
    IN [instructions |->
            WithDiscards(diff_insns \o flux_insns \o assign_insns, result),
        result |-> result]

\* Discretization.compile (542-561)
compile(fgs, optemplate, ords) ==
    [code |-> OperatorCompiler(prepared_optemplate(fgs, optemplate), ords)]

FluxBatches(code) ==
    SelectSeq(code.instructions, LAMBDA insn : insn.op = "FluxBatchAssign")

(***************************************************************************)
(* Execution (ExecutionMapper, 105-183; Executor, 513-519).  Every exec_*  *)
(* yields the context it leaves and whether it ran without a KeyError.     *)
(***************************************************************************)
EmptyDict == [n \in {} |-> 0]

Dimensions == 2                  \* discr.dimensions

Ok(context) == [ok |-> TRUE, context |-> context]
Raise(context) == [ok |-> FALSE, context |-> context]

DictDel(d, name) == [n \in DOMAIN d \ {name} |-> d[n]]
DictSet(d, name, value) == (name :> value) @@ d

\* del self.context[insn.name]
exec_discard(insn, context) ==
    IF insn.name \in DOMAIN context
    THEN Ok(DictDel(context, insn.name))
    ELSE Raise(context)

\* self.context[insn.name] = self(insn.expr)
exec_assign(insn, context) ==
    IF Range(insn.expr) \subseteq DOMAIN context
    THEN Ok(DictSet(context, insn.name,
                SumSeq([n \in DOMAIN insn.expr |-> context[insn.expr[n]]])))
    ELSE Raise(context)

FgWeight(g) == g                 \* what face group g contributes per unit flux
DepCoef(fc) == IF fc.is_local THEN 1 ELSE 2

RECURSIVE SumDeps(_, _, _, _)
SumDeps(kernel, flux_idx, deps, args) ==
    IF deps = {} THEN 0
    ELSE LET fc == CHOOSE d \in deps : TRUE
             a == kernel.reads[<<flux_idx, fc>>]
             v == IF is_no_arg(a) THEN 0
                  ELSE DepCoef(fc) * args[IndexOf(kernel.arg_names, a)]
         IN v + SumDeps(kernel, flux_idx, deps \ {fc}, args)

\* insn.compiled_func(fg, *(all_fluxes_on_faces+args)): the face values of
\* every flux of the batch on face group g
compiled_func(insn, g, args) ==
    [n \in DOMAIN insn.fluxes |->
        FgWeight(g) * SumDeps(insn.compiled_func, n - 1,
                              insn.fluxes[n].op.deps, args)]

\* self.executor.lift_flux(fg, matrix, jacobians, fluxes_on_faces, out)
lift_flux(flux, fluxes_on_faces, out) ==
    out + (IF flux.op.lifting THEN 2 ELSE 1) * fluxes_on_faces

volume_zeros == 0

\* the loop over face groups of exec_flux_batch_assign (144-163)
RECURSIVE fg_loop(_, _, _, _, _)
fg_loop(insn, args, context, g, count) ==
    IF g > count THEN context
    ELSE LET all_fluxes_on_faces == compiled_func(insn, g, args)
             bound == [n \in DOMAIN insn.names |->
                          lift_flux(insn.fluxes[n], all_fluxes_on_faces[n],
                                    volume_zeros)]
             after == [nm \in DOMAIN context \cup Range(insn.names) |->
                          IF nm \in Range(insn.names)
                          THEN bound[IndexOf(insn.names, nm)]
                          ELSE context[nm]]
         IN fg_loop(insn, args, after, g + 1, count)

exec_flux_batch_assign(insn, context, fgs) ==
    IF \A n \in DOMAIN insn.arg_specs : insn.arg_specs[n][1] \in DOMAIN context
    THEN LET args == [n \in DOMAIN insn.arg_specs |->
                         context[insn.arg_specs[n][1]]]
         IN Ok(fg_loop(insn, args, context, 1, fgs[insn.kind]))
    ELSE Raise(context)

diff_rst(i, field) == (i + 1) * field
diff_rst_to_xyz(op, rst_derivatives) ==
    (IF op = "dx" THEN 1 ELSE 2) * SumSeq(rst_derivatives)

\* the calls of executor.diff_rst one DiffBatchAssign makes (166-168): one per
\* axis of the discretization, each with the instruction's field
diff_rst_calls_PerName(insn) ==
    Flatten([n \in DOMAIN insn.names |->
                [i \in 1..Dimensions |-> <<i - 1, insn.field>>]])

diff_rst_calls(insn) ==
    [i \in 1..Dimensions |-> <<i - 1, insn.field>>]

exec_diff_batch_assign(insn, context) ==
    IF insn.field \in DOMAIN context
    THEN LET calls == diff_rst_calls(insn)
             rst_derivatives ==
                [j \in DOMAIN calls |->
                    diff_rst(calls[j][1], context[calls[j][2]])]
         IN Ok([nm \in DOMAIN context \cup Range(insn.names) |->
                  IF nm \in Range(insn.names)
                  THEN diff_rst_to_xyz(
                          insn.operators[IndexOf(insn.names, nm)],
                          rst_derivatives)
                  ELSE context[nm]])
    ELSE Raise(context)

\* insn.get_executor_method(exec_mapper)(insn)
exec_insn(insn, context, fgs) ==
    CASE insn.op = "Assign" -> exec_assign(insn, context)
      [] insn.op = "Discard" -> exec_discard(insn, context)
      [] insn.op = "FluxBatchAssign" -> exec_flux_batch_assign(insn, context, fgs)
      [] insn.op = "DiffBatchAssign" -> exec_diff_batch_assign(insn, context)

(***************************************************************************)
(* Dict objects.  A call c of an Executor receives its keyword arguments   *)
(* as the dict object vars(c); ExecutionMapper.__init__ (108-111) makes    *)
(* the dict object its exec_* methods work on.                             *)
(***************************************************************************)
VarsObj(c) == <<"vars", c>>
CtxObj(c) == <<"ctx", c>>
SharedObj == <<"shared", 0>>
NoObj == <<"none", 0>>
ObjIds == {VarsObj(c) : c \in CallIds} \cup {CtxObj(c) : c \in CallIds}
            \cup {SharedObj}

\* faulty variants: no copy is made; one dict serves every call
ExecutionMapper_init_NoCopy(h, c) == [heap |-> h, context |-> VarsObj(c)]
ExecutionMapper_init_Shared(h, c) ==
    [heap |-> [h EXCEPT ![SharedObj] = h[VarsObj(c)] @@ h[SharedObj]],
     context |-> SharedObj]

\* Evaluator.__init__(self, context.copy())
ExecutionMapper_init(h, c) ==
    [heap |-> [h EXCEPT ![CtxObj(c)] = h[VarsObj(c)]], context |-> CtxObj(c)]

\* after_failed records that the call began after another one had failed
IdleMapper == [status |-> "idle", context |-> NoObj, executor |-> 0, pc |-> 0,
               after_failed |-> FALSE]

\* the bindings a caller passes: every declared input, or all but one
Bindings == {FieldNames} \cup {FieldNames \ {n} : n \in FieldNames}

(***************************************************************************)
(* Actions of the compiler and the execution engine                        *)
(***************************************************************************)
\* no cuda Discretization is under construction
\* a local discretization, as far as the storage layout reads it
LocalDiscretization(node_count, face_node_count) ==
    [node_count |-> node_count, face_node_count |-> face_node_count]

\* the interval element of order 1: two nodes, a face is one node
IntervalElement == LocalDiscretization(2, 1)

\* DeviceData, as far as the storage layout reads it: the alignment in floats
DeviceData(align) == [align |-> align]

\* the attributes of a cuda Discretization that lay out device vectors
CudaDiscr(ldis, devdata) ==
    [ldis |-> ldis, devdata |-> devdata, aligned_boundary_floats |-> 0]

\* no volume field is transferred and no embedding is asked for
XferIdle ==
    /\ xfer = [pc |-> "idle"]
    /\ embedding = <<>>

\* no time stepper and no Closable is in use
ToolIdle ==
    /\ ab = [pc |-> "idle"]
    /\ closable = [pc |-> "idle"]

GpuIdle ==
    /\ discr = CudaDiscr(IntervalElement, DeviceData(1))
    /\ mesh = [n |-> 0, periodic |-> FALSE]
    /\ plan = [flux_par |-> [p |-> 0, s |-> 0], occupancy |-> 0]
    /\ part_count = 0
    /\ partition = <<>>
    /\ actual_plan = <<>>
    /\ blocks = <<>>
    /\ face_storage = <<>>
    /\ fsm = <<>>
    /\ fp_index = 0
    /\ gpu_pc = "idle"
    /\ raised = ""
    /\ opp_call = "none"
    /\ device = <<>>

JitInit ==
    /\ face_groups \in [Kinds -> 0..MaxFaceGroups]
    /\ compiled = <<>>
    /\ kernel_log = <<>>
    /\ compile_log = <<>>
    /\ heap = [o \in ObjIds |-> EmptyDict]
    /\ mapper = [c \in CallIds |-> IdleMapper]
    /\ outputs = [c \in CallIds |-> <<>>]

\* a faulty variant: a kernel whose signature was generated before is reused
kernels_generated_Cached(log, code) ==
    LET b == FluxBatches(code)
        new == SelectSeq([n \in DOMAIN b |-> Signature(b[n])],
                         LAMBDA sg : sg \notin Range(log))
    IN log \o new

\* mod.compile(...) runs in every make_*_flux_batch_assign (389-390, 499)
kernels_generated(log, code) ==
    LET b == FluxBatches(code)
    IN log \o [n \in DOMAIN b |-> Signature(b[n])]

\* discr.compile(optemplate), at most limit times
Compile(limit) ==
    /\ Len(compiled) < limit
    /\ \E optemplate \in Templates :
       \E ords \in IterationOrders(
                    FluxCollector(prepared_optemplate(face_groups, optemplate))) :
          LET executor == compile(face_groups, optemplate, ords)
          IN /\ compiled' = Append(compiled, executor)
             /\ kernel_log' = kernels_generated(kernel_log, executor.code)
             /\ compile_log' = Append(compile_log, optemplate)
    /\ UNCHANGED <<face_groups, heap, mapper, outputs>>
    /\ UNCHANGED <<gpu_vars, kern_vars, xfer_vars, tool_vars>>

\* Executor.__call__(**vars), up to the first instruction
Call(c) ==
    /\ mapper[c].status = "idle"
    /\ \E e \in DOMAIN compiled :
       \E b \in Bindings :
          LET h == [heap EXCEPT ![VarsObj(c)] = [n \in b |-> InputValue(n)]]
              m == ExecutionMapper_init(h, c)
          IN /\ heap' = m.heap
             /\ mapper' = [mapper EXCEPT ![c] =
                    [status |-> "running", context |-> m.context,
                     executor |-> e, pc |-> 1,
                     after_failed |->
                        \E d \in CallIds : mapper[d].status = "failed"]]
    /\ UNCHANGED <<face_groups, compiled, kernel_log, compile_log, outputs>>
    /\ UNCHANGED <<gpu_vars, kern_vars, xfer_vars, tool_vars>>

CodeOf(c) == compiled[mapper[c].executor].code

\* Code.execute: the next instruction of call c
Step(c) ==
    /\ mapper[c].status = "running"
    /\ mapper[c].pc <= Len(CodeOf(c).instructions)
    /\ LET r == exec_insn(CodeOf(c).instructions[mapper[c].pc],
                          heap[mapper[c].context], face_groups)
       IN IF r.ok
          THEN /\ heap' = [heap EXCEPT ![mapper[c].context] = r.context]
               /\ mapper' = [mapper EXCEPT ![c].pc = @ + 1]
          ELSE /\ heap' = heap
               /\ mapper' = [mapper EXCEPT ![c].status = "failed"]
    /\ UNCHANGED <<face_groups, compiled, kernel_log, compile_log, outputs>>
    /\ UNCHANGED <<gpu_vars, kern_vars, xfer_vars, tool_vars>>

\* Code.execute: return exec_mapper(self.result)
Return(c) ==
    /\ mapper[c].status = "running"
    /\ mapper[c].pc = Len(CodeOf(c).instructions) + 1
    /\ LET context == heap[mapper[c].context]
           result == CodeOf(c).result
       IN IF Range(result) \subseteq DOMAIN context
          THEN /\ outputs' = [outputs EXCEPT ![c] =
                                [j \in DOMAIN result |-> context[result[j]]]]
               /\ mapper' = [mapper EXCEPT ![c].status = "done"]
          ELSE /\ outputs' = outputs
               /\ mapper' = [mapper EXCEPT ![c].status = "failed"]
    /\ UNCHANGED <<face_groups, compiled, kernel_log, compile_log, heap>>
    /\ UNCHANGED <<gpu_vars, kern_vars, xfer_vars, tool_vars>>

\* one compiled callable, two calls of it
Next ==
    \/ Compile(1)
    \/ \E c \in CallIds : Call(c)
    \/ \E c \in CallIds : Step(c)
    \/ \E c \in CallIds : Return(c)

\* no generated kernel is running
KernIdle ==
    /\ kern = [pc |-> "idle"]
    /\ fof = <<>>

Init == JitInit /\ GpuIdle /\ KernIdle /\ XferIdle /\ ToolIdle

Spec == Init /\ [][Next]_vars

\* a sequence of compile() calls on one discretization
NextCompile == Compile(MaxCompiles)

SpecCompile == Init /\ [][NextCompile]_vars

(***************************************************************************)
(* Properties of the execution engine                                      *)
(***************************************************************************)
\* the input names the instructions of a code read
InputsRead(code) ==
    (UNION {Reads(code.instructions[n]) : n \in DOMAIN code.instructions})
        \cap FieldNames

\* every name is assigned before it is read and not discarded in between;
\* a Discard follows the assignment and every read of its name
TopologicallyValid(code) ==
    LET insns == code.instructions
        assigned_at(j, nm) == nm \in Writes(insns[j])
        discarded_at(k, nm) == insns[k].op = "Discard" /\ insns[k].name = nm
    IN /\ \A i \in DOMAIN insns : \A nm \in Reads(insns[i]) :
            \/ nm \in FieldNames
            \/ \E j \in 1..(i - 1) :
                  /\ assigned_at(j, nm)
                  /\ \A k \in (j + 1)..(i - 1) : ~discarded_at(k, nm)
       /\ \A i \in DOMAIN insns :
            insns[i].op = "Discard" =>
                /\ \E j \in 1..(i - 1) : assigned_at(j, insns[i].name)
                /\ \A k \in DOMAIN insns :
                      insns[i].name \in Reads(insns[k]) => k < i
                /\ insns[i].name \notin Range(code.result)

\* the values a call of code returns when it runs alone on the bindings
\* (a dict), or <<>> if it fails
RECURSIVE RunFrom(_, _, _, _)
RunFrom(code, context, pc, fgs) ==
    IF pc > Len(code.instructions)
    THEN IF Range(code.result) \subseteq DOMAIN context
         THEN [ok |-> TRUE,
               out |-> [j \in DOMAIN code.result |-> context[code.result[j]]]]
         ELSE [ok |-> FALSE, out |-> <<>>]
    ELSE LET r == exec_insn(code.instructions[pc], context, fgs)
         IN IF r.ok THEN RunFrom(code, r.context, pc + 1, fgs)
            ELSE [ok |-> FALSE, out |-> <<>>]

\* C1: every compiled instruction sequence is topologically valid (names are
\* assigned before they are read, Discards come after the assignment and all
\* reads), and therefore a call whose bindings hold every declared input
\* never reads or deletes an absent name, i.e. never fails.
C1_TopologicallyValid ==
    /\ \A e \in DOMAIN compiled : TopologicallyValid(compiled[e].code)
    /\ \A c \in CallIds :
          FieldNames \subseteq DOMAIN heap[VarsObj(c)] =>
              mapper[c].status # "failed"

\* C2: a step of call c leaves the dict the caller supplied to c as it was,
\* and leaves the supplied dict and the context of every other call as they
\* were, in every interleaving of the two calls.
C2_OwnContext ==
    [][\A c \in CallIds :
          (mapper[c].status = "running" /\ mapper'[c] # mapper[c]) =>
              /\ heap'[VarsObj(c)] = heap[VarsObj(c)]
              /\ \A d \in CallIds \ {c} :
                    /\ heap'[VarsObj(d)] = heap[VarsObj(d)]
                    /\ mapper'[d] = mapper[d]
                    /\ mapper[d].status # "idle" =>
                          heap'[mapper[d].context] = heap[mapper[d].context]]_vars

\* both calls have run instructions of the same compiled callable and have
\* bound names of their own
C2_Witness ==
    /\ mapper[1].executor = mapper[2].executor
    /\ \A c \in CallIds :
          /\ mapper[c].status = "running"
          /\ mapper[c].pc > 2
          /\ DOMAIN heap[mapper[c].context] # DOMAIN heap[VarsObj(c)]

\* C3: a call that lacks an input some instruction reads does not return
\* (it fails); the compiled callable is the same object afterwards, and a
\* call with the bindings it needs returns what it returns when run alone,
\* whether or not another call has failed before it.
C3_FailureIsLocal ==
    \A c \in CallIds :
        mapper[c].status \in {"done", "failed"} =>
            LET code == CodeOf(c)
                alone == RunFrom(code, heap[VarsObj(c)], 1, face_groups)
            IN /\ mapper[c].status = "done" =>
                    /\ InputsRead(code) \subseteq DOMAIN heap[VarsObj(c)]
                    /\ alone.ok
                    /\ outputs[c] = alone.out
               /\ mapper[c].status = "failed" => ~alone.ok

\* one call failed for a missing input, and a call begun after that failure
\* has returned its outputs
C3_Witness ==
    \E c \in CallIds : \E d \in CallIds \ {c} :
        /\ mapper[c].status = "failed"
        /\ ~(InputsRead(CodeOf(c)) \subseteq DOMAIN heap[VarsObj(c)])
        /\ mapper[d].status = "done"
        /\ mapper[d].after_failed
        /\ mapper[d].executor = mapper[c].executor
        /\ outputs[d] # <<>>

(***************************************************************************)
(* Properties of the compiler                                              *)
(***************************************************************************)
\* the template compile call e handed to OperatorCompiler
PreparedOf(e) == prepared_optemplate(face_groups, compile_log[e])

Refs(insn) == DOMAIN insn.compiled_func.reads
RefExpr(insn, r) == fc_field_expr_of(insn.fluxes[r[1] + 1], r[2])
RefPair(insn, r) == <<RefExpr(insn, r), r[2].is_local>>
RefSlot(insn, r) == insn.compiled_func.reads[r]

AllBatches == UNION {Range(FluxBatches(compiled[e].code)) : e \in DOMAIN compiled}

\* C5 as stated: one slot per distinct (field expression, locality) pair that
\* is referenced; equal pairs share a slot, different pairs do not.
C5_SlotPerPair ==
    \A insn \in AllBatches :
        /\ \A r \in Refs(insn) : ~is_no_arg(RefSlot(insn, r))
        /\ \A r1 \in Refs(insn) : \A r2 \in Refs(insn) :
              RefSlot(insn, r1) = RefSlot(insn, r2)
                  <=> RefPair(insn, r1) = RefPair(insn, r2)
        /\ Len(insn.compiled_func.arg_names)
              = Cardinality({RefPair(insn, r) : r \in Refs(insn)})

\* C5 amended: one slot per distinct non-zero field expression that is
\* referenced; references to the same expression share the slot whatever
\* their locality, different expressions get different slots, a zero
\* expression gets none, and the spec of a slot is the expression with the
\* locality of one of its references.
C5_SlotPerFieldExpr ==
    \A insn \in AllBatches :
        LET nz == {r \in Refs(insn) : ~is_zero(RefExpr(insn, r))}
        IN /\ \A r \in Refs(insn) :
                 is_no_arg(RefSlot(insn, r)) <=> r \notin nz
           /\ \A r1 \in nz : \A r2 \in nz :
                 RefSlot(insn, r1) = RefSlot(insn, r2)
                     <=> RefExpr(insn, r1) = RefExpr(insn, r2)
           /\ Len(insn.compiled_func.arg_names)
                 = Cardinality({RefExpr(insn, r) : r \in nz})
           /\ Len(insn.arg_specs) = Len(insn.compiled_func.arg_names)
           /\ \A n \in DOMAIN insn.arg_specs :
                 /\ insn.compiled_func.arg_names[n] = arg_name_fmt(n - 1)
                 /\ \E r \in nz :
                       /\ RefSlot(insn, r) = arg_name_fmt(n - 1)
                       /\ insn.arg_specs[n] = RefPair(insn, r)

\* a batch in which one field expression is referenced as local and as
\* opposite, and a batch with two slots
C5_Witness ==
    /\ \E insn \in AllBatches :
       \E r1 \in Refs(insn) : \E r2 \in Refs(insn) :
          /\ RefExpr(insn, r1) = RefExpr(insn, r2)
          /\ ~is_zero(RefExpr(insn, r1))
          /\ r1[2].is_local /\ ~r2[2].is_local
    /\ \E insn \in AllBatches : Len(insn.arg_specs) >= 2

NoRepeats(s) == \A i \in DOMAIN s : \A j \in DOMAIN s : s[i] = s[j] => i = j

Meshes == [n : 2..MaxElements, periodic : BOOLEAN]

\* mesh.elements, by element id
elements_of(m) == 0..(m.n - 1)

\* plan.faces_per_el(): an interval has a left (0) and a right (1) face
faces_per_el == 2

\* mesh.interfaces: ((e1, f1), (e2, f2)), each interior face pair once
interfaces(m) ==
    [i \in 1..(m.n - 1) |-> <<<<i - 1, 1>>, <<i, 0>>>>]
    \o (IF m.periodic THEN << <<<<m.n - 1, 1>>, <<0, 0>>>> >> ELSE <<>>)

\* a faulty variant: every interface in one direction only
both_interfaces_OneDirection(m) == interfaces(m)

\* mesh.both_interfaces(): every interface in both directions
both_interfaces(m) ==
    interfaces(m)
    \o [i \in DOMAIN interfaces(m) |-> <<interfaces(m)[i][2], interfaces(m)[i][1]>>]

\* mesh.tag_to_boundary[TAG_ALL]: the (element, face) pairs on the boundary
tag_to_boundary(m) ==
    IF m.periodic THEN <<>> ELSE << <<0, 0>>, <<m.n - 1, 1>> >>

\* Parallelism(p, s)
Parallelism(p, s) == [p |-> p, s |-> s]

\* Parallelism.total()
total(par) == par.p * par.s

\* plan.flux_occupancy_record().occupancy, in hundredths
OccupancyLevels == {33, 66, 67}

\* the ceiling of desired_occup, in hundredths
OccupancyCap == 66

\* the preliminary plans a caller passes: any parallelism, at the occupancy
\* the ceiling names (the search reads the occupancy only to compare it with
\* the realized plan's)
Plans == [flux_par : {Parallelism(p, s) : p \in 2..MaxP, s \in 1..MaxS},
          occupancy : {OccupancyCap}]

Max(S) == CHOOSE x \in S : \A y \in S : y <= x

\* the members of a set of integers in ascending order
RECURSIVE Ascending(_)
Ascending(S) ==
    IF S = {} THEN <<>>
    ELSE LET least == CHOOSE x \in S : \A y \in S : x <= y
         IN <<least>> \o Ascending(S \ {least})

\* hedge.cuda.tools.int_ceiling of the quotient num/den
int_ceiling(num, den) == (num + den - 1) \div den

\* the external faces the search tallies for block b (205-214)
ext_iface_tally_NoBoundary(m, part, b) ==
    LET both == both_interfaces(m)
    IN Cardinality({i \in DOMAIN both :
                       part[both[i][1][1]] = b /\ part[both[i][2][1]] # b})

ext_iface_tally(m, part, b) ==
    LET both == both_interfaces(m)
        bdry == tag_to_boundary(m)
    IN Cardinality({i \in DOMAIN both :
                       part[both[i][1][1]] = b /\ part[both[i][2][1]] # b})
       + Cardinality({i \in DOMAIN bdry : part[bdry[i][1]] = b})

\* block2extifaces: a key for every block with an external face
block2extifaces(m, part) ==
    [b \in {c \in Range(part) : ext_iface_tally(m, part, c) > 0} |->
        ext_iface_tally(m, part, b)]

\* blocks of the search: block -> element ids, by setdefault(...).append
blocks_of(part) ==
    [b \in Range(part) |-> Ascending({e \in DOMAIN part : part[e] = b})]

NoPlan == [max_ext_faces |-> 0, max_faces |-> 0,
           flux_par |-> Parallelism(0, 0), occupancy |-> 0]

\* one pass of the loop of _partition_mesh up to the acceptance test
partition_attempt(m, pl, part) ==
    LET b2e == block2extifaces(m, part)
        blks == blocks_of(part)
        block_elements == Max({Len(blks[b]) : b \in DOMAIN blks})
        flux_par_s == int_ceiling(block_elements, pl.flux_par.p)
        rng == 0..(Cardinality(DOMAIN blks) - 1)
    IN IF DOMAIN b2e = {}
       THEN [raised |-> "ValueError", plan |-> NoPlan]
       ELSE IF ~(rng \subseteq DOMAIN blks /\ rng \subseteq DOMAIN b2e)
       THEN [raised |-> "KeyError", plan |-> NoPlan]
       ELSE LET made ==
                  [max_ext_faces |-> Max({b2e[b] : b \in DOMAIN b2e}),
                   max_faces |-> Max({Len(blks[b]) * faces_per_el + b2e[b] :
                                         b \in rng}),
                   flux_par |-> Parallelism(pl.flux_par.p, flux_par_s),
                   occupancy |-> 0]
            IN IF made.max_faces % 2 # 0
               THEN [raised |-> "AssertionError", plan |-> NoPlan]
               ELSE [raised |-> "", plan |-> made]

\* Discretization.__init__ of the cuda backend, up to the partition search
\* Discretization.__init__ is entered with a mesh, a local discretization, a
\* device and a preliminary plan
GpuStart(meshes, discrs) ==
    /\ discr \in discrs
    /\ mesh \in meshes
    /\ plan \in Plans
    /\ part_count = mesh.n \div total(plan.flux_par) + 1
    /\ partition = <<>>
    /\ actual_plan = <<>>
    /\ blocks = <<>>
    /\ face_storage = <<>>
    /\ fsm = <<>>
    /\ fp_index = 0
    /\ gpu_pc = "_partition_mesh"
    /\ raised = ""
    /\ opp_call = "none"
    /\ device = <<>>

GpuInit == GpuStart(Meshes, {CudaDiscr(IntervalElement, DeviceData(1))})

\* the compiler and the execution engine are not used during construction
JitIdle ==
    /\ JitInit
    /\ face_groups = [k \in Kinds |-> 1]

\* actual_plan.flux_occupancy_record(): the occupancy the device data give
\* the realized plan
flux_occupancy_record(made, occupancy) == [made EXCEPT !.occupancy = occupancy]

\* a faulty variant: the realized flux_par.s is not looked at
accepts_AnyS(pl, actual) == actual.occupancy = pl.occupancy

\* the acceptance test at 234-236; occupancies are in hundredths, so a
\* difference below 1e-10 is equality
accepts(pl, actual) ==
    /\ actual.flux_par.s <= pl.flux_par.s
    /\ actual.occupancy = pl.occupancy

\* one pass of the loop of _partition_mesh: part_graph is an external
\* partitioner and the occupancy record comes from the device data, so both
\* are choices
_partition_mesh ==
    /\ gpu_pc = "_partition_mesh"
    /\ part_count <= MaxPartCount
    /\ \E part \in [elements_of(mesh) -> 0..(part_count - 1)] :
          LET r == partition_attempt(mesh, plan, part)
          IN IF r.raised # ""
             THEN /\ gpu_pc' = "raised"
                  /\ raised' = r.raised
                  /\ UNCHANGED <<part_count, partition, actual_plan>>
             ELSE \E occupancy \in OccupancyLevels :
                  LET actual == flux_occupancy_record(r.plan, occupancy)
                  IN IF accepts(plan, actual)
                     THEN /\ gpu_pc' = "_build_blocks"
                          /\ partition' = part
                          /\ actual_plan' = actual
                          /\ UNCHANGED <<part_count, raised>>
                     ELSE /\ part_count' = part_count + 1
                          /\ actual_plan' = actual
                          /\ UNCHANGED <<partition, gpu_pc, raised>>
    /\ UNCHANGED <<device, discr, mesh, plan, blocks, face_storage, fsm, fp_index, opp_call>>
    /\ UNCHANGED <<jit_vars, kern_vars, xfer_vars, tool_vars>>

(***************************************************************************)
(* CUDA backend: blocks and the face storage map                           *)
(***************************************************************************)
\* GPUBlock.__init__
GPUBlock(number, elements) ==
    [number |-> number, elements |-> elements,
     ext_faces_from_me |-> <<>>, ext_faces_to_me |-> <<>>]

\* a faulty variant: a block keeps only the element entered last
block_el_numbers_Overwrite(part) ==
    [b \in Range(part) |-> <<Max({e \in DOMAIN part : part[e] = b})>>]

\* block_el_numbers of _build_blocks (308-310)
block_el_numbers(part) ==
    [b \in Range(part) |-> Ascending({e \in DOMAIN part : part[e] = b})]

\* the list _build_blocks returns, as block number -> GPUBlock
make_blocks(part) ==
    LET block_count == Cardinality(DOMAIN block_el_numbers(part))
    IN [block_num \in 0..(block_count - 1) |->
            GPUBlock(block_num, block_el_numbers(part)[block_num])]

\* self.blocks = self._build_blocks()
_build_blocks ==
    /\ gpu_pc = "_build_blocks"
    /\ LET ben == block_el_numbers(partition)
       IN IF 0..(Cardinality(DOMAIN ben) - 1) \subseteq DOMAIN ben
          THEN /\ blocks' = make_blocks(partition)
               /\ gpu_pc' = "int_face_pairs"
               /\ raised' = raised
          ELSE /\ blocks' = blocks
               /\ gpu_pc' = "raised"
               /\ raised' = "KeyError"
    /\ UNCHANGED <<device, discr, mesh, plan, part_count, partition, actual_plan,
                   face_storage, fsm, fp_index, opp_call>>
    /\ UNCHANGED <<jit_vars, kern_vars, xfer_vars, tool_vars>>

\* references to face storage objects, and attributes that are not set
IntRef(elface) == <<"int", elface[1], elface[2]>>
BdryRef(elface) == <<"bdry", elface[1], elface[2]>>
NoFace == <<"none", 0, 0>>
NoBlock == -1
NoNumber == -1
NoElFace == <<-1, -1>>

\* GPUBlock.get_el_index
get_el_index(block, sought_el) ==
    IF \E i \in DOMAIN block.elements : block.elements[i] = sought_el
    THEN IndexOf(block.elements, sought_el) - 1
    ELSE NoNumber

\* GPUInteriorFaceStorage(...) as make_int_face builds it
GPUInteriorFaceStorage(elface, native_block, native_block_el_num) ==
    [cls |-> "GPUInteriorFaceStorage", el_face |-> elface,
     native_block |-> native_block,
     native_block_el_num |-> native_block_el_num,
     opposite |-> NoFace, dup_block |-> NoBlock,
     dup_ext_face_number |-> NoNumber]

\* GPUBoundaryFaceStorage(...): it has no element and no native block
GPUBoundaryFaceStorage ==
    [cls |-> "GPUBoundaryFaceStorage", el_face |-> NoElFace,
     native_block |-> NoBlock, native_block_el_num |-> NoNumber,
     opposite |-> NoFace, dup_block |-> NoBlock,
     dup_ext_face_number |-> NoNumber,
     gpu_bdry_index_in_floats |-> NoNumber]

\* make_int_face: the record of the face (el, face_id)
make_int_face(bs, part, elface) ==
    GPUInteriorFaceStorage(elface, part[elface[1]],
                           get_el_index(bs[part[elface[1]]], elface[1]))

\* make_int_face completes: elface is new and its element is in its block
make_int_face_ok(bs, part, map, elface) ==
    /\ elface \notin DOMAIN map
    /\ part[elface[1]] \in DOMAIN bs
    /\ get_el_index(bs[part[elface[1]]], elface[1]) # NoNumber

\* a faulty variant: the face takes the place of the list
register_ext_face_to_me_Replace(block, face) ==
    [result |-> 0,
     block |-> [block EXCEPT !.ext_faces_to_me = <<face>>]]

\* a faulty variant: the length is taken after the append
register_ext_face_to_me_LenAfter(block, face) ==
    [result |-> Len(block.ext_faces_to_me) + 1,
     block |-> [block EXCEPT !.ext_faces_to_me = Append(@, face)]]

\* GPUBlock.register_ext_face_to_me
register_ext_face_to_me(block, face) ==
    [result |-> Len(block.ext_faces_to_me),
     block |-> [block EXCEPT !.ext_faces_to_me = Append(@, face)]]

\* a faulty variant: the face is entered twice
register_ext_face_from_me_Twice(block, face) ==
    [block EXCEPT !.ext_faces_from_me = Append(Append(@, face), face)]

\* GPUBlock.register_ext_face_from_me
register_ext_face_from_me(block, face) ==
    [block EXCEPT !.ext_faces_from_me = Append(@, face)]

\* a faulty variant: the duplicate is entered in the face's own block
duplicate_face_InOwnBlock(bs, fs, loc_face, opp_face) ==
    LET dup_block == fs[loc_face].native_block
        reg == register_ext_face_to_me(bs[dup_block], loc_face)
        bs1 == [bs EXCEPT ![dup_block] = reg.block]
        native == fs[loc_face].native_block
    IN [blocks |-> [bs1 EXCEPT ![native] =
                        register_ext_face_from_me(bs1[native], loc_face)],
        face_storage |-> [fs EXCEPT ![loc_face].dup_block = dup_block,
                                    ![loc_face].dup_ext_face_number = reg.result]]

\* the body of the loop over (loc_face, opp_face) at 426-430
duplicate_face(bs, fs, loc_face, opp_face) ==
    LET dup_block == fs[opp_face].native_block
        reg == register_ext_face_to_me(bs[dup_block], loc_face)
        bs1 == [bs EXCEPT ![dup_block] = reg.block]
        native == fs[loc_face].native_block
    IN [blocks |-> [bs1 EXCEPT ![native] =
                        register_ext_face_from_me(bs1[native], loc_face)],
        face_storage |-> [fs EXCEPT ![loc_face].dup_block = dup_block,
                                    ![loc_face].dup_ext_face_number = reg.result]]

\* a faulty variant: a boundary face pair is entered in no list
register_boundary_face_Skip(bs, fs, face1, face2) ==
    [blocks |-> bs, face_storage |-> fs]

\* the registration of a boundary face pair at 491-493
register_boundary_face(bs, fs, face1, face2) ==
    LET native == fs[face1].native_block
        reg == register_ext_face_to_me(bs[native], face2)
    IN [blocks |-> [bs EXCEPT ![native] =
                        register_ext_face_from_me(reg.block, face1)],
        face_storage |-> [fs EXCEPT ![face2].dup_block = native,
                                    ![face2].dup_ext_face_number = reg.result]]

\* int_fg.face_pairs: (loc, opp) for every interior face pair
int_face_pairs(m) == interfaces(m)

\* get_boundary(TAG_ALL) face pairs: the loc side of every boundary face
bdry_face_pairs(m) == tag_to_boundary(m)

\* where __init__ continues after the interior face pairs
after_int_face_pairs(m) ==
    IF Len(bdry_face_pairs(m)) = 0 THEN "final_assert" ELSE "bdry_face_pairs"

\* a faulty variant: the count is rounded down to the alignment
align_dtype_Down(devdata, elements) ==
    (elements \div devdata.align) * devdata.align

\* devdata.align_dtype(elements, dtype_size): the count of elements rounded
\* up to the alignment of the device
align_dtype(devdata, elements) ==
    int_ceiling(elements, devdata.align) * devdata.align

\* _build_face_storage_map: one pass of `for fp in int_fg.face_pairs`
InteriorFacePair ==
    /\ gpu_pc = "int_face_pairs"
    /\ fp_index < Len(int_face_pairs(mesh))
    /\ LET fp == int_face_pairs(mesh)[fp_index + 1]
           face1 == IntRef(fp[1])
           face2 == IntRef(fp[2])
           last == fp_index + 1 = Len(int_face_pairs(mesh))
       IN IF /\ make_int_face_ok(blocks, partition, fsm, fp[1])
             /\ make_int_face_ok(blocks, partition, fsm, fp[2])
             /\ fp[1] # fp[2]
          THEN LET made1 == make_int_face(blocks, partition, fp[1])
                   made2 == make_int_face(blocks, partition, fp[2])
                   fs == face_storage
                         @@ (face1 :> [made1 EXCEPT !.opposite = face2])
                         @@ (face2 :> [made2 EXCEPT !.opposite = face1])
                   dup1 == duplicate_face(blocks, fs, face1, face2)
                   dup2 == duplicate_face(dup1.blocks, dup1.face_storage,
                                          face2, face1)
               IN /\ fsm' = fsm @@ (fp[1] :> face1) @@ (fp[2] :> face2)
                  /\ IF made1.native_block # made2.native_block
                     THEN /\ blocks' = dup2.blocks
                          /\ face_storage' = dup2.face_storage
                     ELSE /\ blocks' = blocks
                          /\ face_storage' = fs
                  /\ fp_index' = IF last THEN 0 ELSE fp_index + 1
                  /\ gpu_pc' = IF last THEN after_int_face_pairs(mesh)
                               ELSE gpu_pc
                  /\ raised' = raised
          ELSE /\ gpu_pc' = "raised"
               /\ raised' = "AssertionError"
               /\ UNCHANGED <<blocks, face_storage, fsm, fp_index>>
    /\ UNCHANGED <<device, discr, mesh, plan, part_count, partition, actual_plan, opp_call>>
    /\ UNCHANGED <<jit_vars, kern_vars, xfer_vars, tool_vars>>

\* _build_face_storage_map: one pass of `for fp in bdry_fg.face_pairs`
BoundaryFacePair ==
    /\ gpu_pc = "bdry_face_pairs"
    /\ fp_index < Len(bdry_face_pairs(mesh))
    /\ LET loc == bdry_face_pairs(mesh)[fp_index + 1]
           face1 == IntRef(loc)
           face2 == BdryRef(loc)
           last == fp_index + 1 = Len(bdry_face_pairs(mesh))
       IN IF make_int_face_ok(blocks, partition, fsm, loc)
          THEN LET made1 == make_int_face(blocks, partition, loc)
                   fs == face_storage
                         @@ (face1 :> [made1 EXCEPT !.opposite = face2])
                         @@ (face2 :> [GPUBoundaryFaceStorage EXCEPT
                                          !.gpu_bdry_index_in_floats =
                                              discr.aligned_boundary_floats,
                                          !.opposite = face1])
                   aligned_fnc == align_dtype(discr.devdata,
                                              discr.ldis.face_node_count)
                   reg == register_boundary_face(blocks, fs, face1, face2)
               IN /\ fsm' = fsm @@ (loc :> face1)
                  /\ blocks' = reg.blocks
                  /\ face_storage' = reg.face_storage
                  /\ fp_index' = IF last THEN 0 ELSE fp_index + 1
                  /\ gpu_pc' = IF last THEN "final_assert" ELSE gpu_pc
                  /\ raised' = raised
                  /\ discr' = [discr EXCEPT !.aligned_boundary_floats =
                                                @ + aligned_fnc]
          ELSE /\ gpu_pc' = "raised"
               /\ raised' = "AssertionError"
               /\ UNCHANGED <<blocks, face_storage, fsm, fp_index, discr>>
    /\ UNCHANGED <<device, mesh, plan, part_count, partition, actual_plan, opp_call>>
    /\ UNCHANGED <<jit_vars, kern_vars, xfer_vars, tool_vars>>

\* _build_face_storage_map: the assertion over self.blocks and the return
FinalAssert ==
    /\ gpu_pc = "final_assert"
    /\ IF \A b \in DOMAIN blocks :
             Len(blocks[b].ext_faces_from_me) = Len(blocks[b].ext_faces_to_me)
       THEN /\ gpu_pc' = "ext_dof_smem_check"
            /\ raised' = raised
       ELSE /\ gpu_pc' = "raised"
            /\ raised' = "AssertionError"
    /\ UNCHANGED <<device, discr, mesh, plan, part_count, partition, actual_plan, blocks,
                   face_storage, fsm, fp_index, opp_call>>
    /\ UNCHANGED <<jit_vars, kern_vars, xfer_vars, tool_vars>>

\* __init__, the check of the ext_dof_smem estimate after the face storage
\* map is built.  Both sides are devdata.align(count * dofs_per_face *
\* float_size), one of the largest ext_faces_to_me list and one of the plan's
\* max_ext_faces: equal counts pass, and different counts pass or fail as
\* the alignment decides.
max_ext_faces_to_me(blks) ==
    Max({Len(blks[b].ext_faces_to_me) : b \in DOMAIN blks})

CheckExtDofSmem ==
    /\ gpu_pc = "ext_dof_smem_check"
    /\ IF max_ext_faces_to_me(blocks) = actual_plan.max_ext_faces
       THEN /\ gpu_pc' = "built"
            /\ raised' = raised
       ELSE \/ /\ gpu_pc' = "built"
               /\ raised' = raised
            \/ /\ gpu_pc' = "raised"
               /\ raised' = "AssertionError"
    /\ UNCHANGED <<device, discr, mesh, plan, part_count, partition, actual_plan, blocks,
                   face_storage, fsm, fp_index, opp_call>>
    /\ UNCHANGED <<jit_vars, kern_vars, xfer_vars, tool_vars>>

\* a faulty variant: the reference is overwritten
set_opposite_Overwrite(self, opp) ==
    [failed |-> FALSE, self |-> [self EXCEPT !.opposite = opp]]

\* GPUFaceStorage.set_opposite
set_opposite(self, opp) ==
    IF self.opposite = NoFace
    THEN [failed |-> FALSE, self |-> [self EXCEPT !.opposite = opp]]
    ELSE IF self.opposite = opp
    THEN [failed |-> FALSE, self |-> self]
    ELSE [failed |-> TRUE, self |-> self]

\* a client calls set_opposite on a record of the finished map, with the
\* record's opposite or with another record (the record itself)
SetOpposite ==
    /\ gpu_pc = "built"
    /\ \E a \in DOMAIN face_storage : \E opp \in {face_storage[a].opposite, a} :
          LET r == set_opposite(face_storage[a], opp)
          IN /\ face_storage' = [face_storage EXCEPT ![a] = r.self]
             /\ opp_call' = IF r.failed THEN "AssertionError" ELSE "returned"
    /\ UNCHANGED <<device, discr, mesh, plan, part_count, partition, actual_plan, blocks,
                   fsm, fp_index, gpu_pc, raised>>
    /\ UNCHANGED <<jit_vars, kern_vars, xfer_vars, tool_vars>>

\* construction of one cuda Discretization, and calls on the built map
NextGPU ==
    \/ _partition_mesh
    \/ _build_blocks
    \/ InteriorFacePair
    \/ BoundaryFacePair
    \/ FinalAssert
    \/ CheckExtDofSmem
    \/ SetOpposite

InitGPU == GpuInit /\ JitIdle /\ KernIdle /\ XferIdle /\ ToolIdle

SpecGPU == InitGPU /\ [][NextGPU]_vars

(***************************************************************************)
(* Properties of the blocks and the face storage map                       *)
(***************************************************************************)
\* the partition search has returned and _build_blocks has run
AfterBuildBlocks == DOMAIN partition # {} /\ gpu_pc # "_build_blocks"

\* the number of positions of element e in the element list of block b
Occurrences(b, e) ==
    Cardinality({i \in DOMAIN blocks[b].elements : blocks[b].elements[i] = e})

\* C8: for every partition vector the partition search returns, the blocks
\* _build_blocks builds partition the mesh elements: _build_blocks completes,
\* every mesh element is in exactly one block (once), and the per-block
\* element counts add up to the number of mesh elements.
C8_BlocksPartitionElements ==
    AfterBuildBlocks =>
        /\ DOMAIN blocks # {}
        /\ \A e \in elements_of(mesh) :
              /\ Cardinality({b \in DOMAIN blocks : Occurrences(b, e) > 0}) = 1
              /\ \A b \in DOMAIN blocks : Occurrences(b, e) <= 1
        /\ SumSeq([i \in 1..Cardinality(DOMAIN blocks) |->
                      Len(blocks[i - 1].elements)]) = mesh.n

\* blocks were built from a partition into several blocks, one of them with
\* several elements
C8_Witness ==
    /\ AfterBuildBlocks
    /\ gpu_pc = "int_face_pairs"
    /\ Cardinality(DOMAIN blocks) >= 2
    /\ \E b \in DOMAIN blocks : Len(blocks[b].elements) >= 2

\* entries in the ext_faces_to_me lists of the other blocks that are faces
\* native to block b
ImportedFrom(b) ==
    Cardinality({oi \in {<<o, i>> : o \in DOMAIN blocks \ {b}, i \in 1..(2 * mesh.n)} :
        /\ oi[2] \in DOMAIN blocks[oi[1]].ext_faces_to_me
        /\ face_storage[blocks[oi[1]].ext_faces_to_me[oi[2]]].native_block = b})

\* boundary faces of the elements of block b
BoundaryFacesOf(b) ==
    Cardinality({i \in DOMAIN tag_to_boundary(mesh) :
                    partition[tag_to_boundary(mesh)[i][1]] = b})

\* boundary storage records in the ext_faces_to_me list of block b itself
OwnBoundaryRecords(b) ==
    Cardinality({i \in DOMAIN blocks[b].ext_faces_to_me :
        face_storage[blocks[b].ext_faces_to_me[i]].cls = "GPUBoundaryFaceStorage"})

TwoElementsTwoBlocks ==
    /\ gpu_pc = "built"
    /\ mesh = [n |-> 2, periodic |-> FALSE]
    /\ partition[0] # partition[1]

\* the face of element e on the shared interface, the element across it, and
\* the face of e on the boundary, in the two-element chain
SharedFace(e) == <<e, 1 - e>>
Across(e) == 1 - e
OuterFace(e) == <<e, e>>

\* the records of the shared face are marked as duplicated in the other block
SharedFaceDuplicated ==
    \A e \in {0, 1} :
        /\ face_storage[IntRef(SharedFace(e))].dup_block = partition[Across(e)]
        /\ face_storage[IntRef(SharedFace(e))].dup_ext_face_number = 0

MutuallyConsistent ==
    \A a \in DOMAIN face_storage :
        /\ face_storage[a].opposite \in DOMAIN face_storage
        /\ \A b \in DOMAIN face_storage :
              face_storage[a].opposite = b <=> face_storage[b].opposite = a

\* set_opposite with another record than the one set fails and changes nothing
SetOppositeRejects ==
    \A a \in DOMAIN face_storage : \A opp \in DOMAIN face_storage :
        opp # face_storage[a].opposite =>
            LET r == set_opposite(face_storage[a], opp)
            IN r.failed /\ r.self = face_storage[a]

\* an opposite reference that is set stays what it is
OppositeKept ==
    \A a \in DOMAIN face_storage :
        face_storage[a].opposite # NoFace =>
            /\ a \in DOMAIN face_storage'
            /\ face_storage'[a].opposite = face_storage[a].opposite

SpecGPUFair == InitGPU /\ [][NextGPU]_vars /\ WF_vars(_partition_mesh)

Candidates ==
    Flatten([i \in 1..(MaxPe - 1) |->
                [se \in 1..2 |-> Parallelism(i + 1, se)]])

\* plan.invalid_reason() is not None
InvalidPlan == -1

\* devices: which configurations are valid, and their flux occupancy
Devices == [Range(Candidates) -> OccupancyLevels \cup {InvalidPlan}]

\* plans = list(generate_valid_plans())
valid_plans(dev) == SelectSeq(Candidates, LAMBDA par : dev[par] # InvalidPlan)


\* a faulty variant: the desired occupancy is not capped
desired_occup_NoCap(dev) ==
    Max({dev[par] : par \in Range(valid_plans(dev))})

\* desired_occup of _make_plan (178-181)
desired_occup(dev) ==
    LET highest == Max({dev[par] : par \in Range(valid_plans(dev))})
    IN IF highest > OccupancyCap THEN OccupancyCap ELSE highest

\* good_plans (183-185); the tolerance is below the resolution of the levels
good_plans(dev) ==
    SelectSeq(valid_plans(dev), LAMBDA par : dev[par] >= desired_occup(dev))

\* plan.elements_per_block()
elements_per_block(par) == total(par)

\* pytools.argmax2 over (p, p.elements_per_block()): the first of the largest
argmax2(pars) ==
    LET best == Max({elements_per_block(pars[i]) : i \in DOMAIN pars})
        first == CHOOSE i \in DOMAIN pars :
                    /\ elements_per_block(pars[i]) = best
                    /\ \A j \in DOMAIN pars :
                          elements_per_block(pars[j]) = best => i <= j
    IN pars[first]

\* Discretization._make_plan, for a device with a valid configuration
_make_plan(dev) ==
    [flux_par |-> argmax2(good_plans(dev)),
     occupancy |-> dev[argmax2(good_plans(dev))]]

\* Discretization.__init__ called without a plan, on a two-element mesh
InitPlan ==
    /\ JitIdle
    /\ KernIdle
    /\ XferIdle
    /\ ToolIdle
    /\ discr = CudaDiscr(IntervalElement, DeviceData(1))
    /\ mesh \in {m \in Meshes : m.n = 2}
    /\ plan = [flux_par |-> Parallelism(0, 0), occupancy |-> 0]
    /\ part_count = 0
    /\ partition = <<>>
    /\ actual_plan = <<>>
    /\ blocks = <<>>
    /\ face_storage = <<>>
    /\ fsm = <<>>
    /\ fp_index = 0
    /\ gpu_pc = "_make_plan"
    /\ raised = ""
    /\ opp_call = "none"
    /\ device \in Devices

\* plan = self._make_plan(ldis, mesh, default_scalar_type)
MakePlan ==
    /\ gpu_pc = "_make_plan"
    /\ IF Len(valid_plans(device)) = 0
       THEN /\ gpu_pc' = "raised"
            /\ raised' = "RuntimeError"
            /\ UNCHANGED <<plan, part_count>>
       ELSE /\ plan' = _make_plan(device)
            /\ part_count' = mesh.n \div total(_make_plan(device).flux_par) + 1
            /\ gpu_pc' = "_partition_mesh"
            /\ raised' = raised
    /\ UNCHANGED <<device, discr, mesh, partition, actual_plan, blocks, face_storage,
                   fsm, fp_index, opp_call>>
    /\ UNCHANGED <<jit_vars, kern_vars, xfer_vars, tool_vars>>

\* __init__ from _make_plan to the end of the partition search
NextPlan ==
    \/ MakePlan
    \/ _partition_mesh

SpecPlan == InitPlan /\ [][NextPlan]_vars

\* some configuration is valid on the device
SomeValid == \E par \in Range(Candidates) : device[par] # InvalidPlan

\* min(highest occupancy of a valid plan, 0.66)
OccupancyThreshold ==
    LET highest == Max({device[par] : par \in
                           {c \in Range(Candidates) : device[c] # InvalidPlan}})
    IN IF highest < OccupancyCap THEN highest ELSE OccupancyCap

\* C13: with a valid configuration _make_plan returns a valid plan whose flux
\* occupancy is at least min(highest occupancy of a valid plan, 0.66) and
\* whose elements per block are the most among the valid plans of at least
\* that occupancy; without a valid configuration it raises and no
\* partitioning is attempted.
C13_PreferredPlan ==
    gpu_pc # "_make_plan" =>
        IF SomeValid
        THEN /\ raised # "RuntimeError"
             /\ plan.flux_par \in Range(Candidates)
             /\ device[plan.flux_par] # InvalidPlan
             /\ device[plan.flux_par] >= OccupancyThreshold
             /\ \A par \in Range(Candidates) :
                   (device[par] # InvalidPlan
                    /\ device[par] >= OccupancyThreshold)
                   => elements_per_block(par) <= elements_per_block(plan.flux_par)
        ELSE /\ gpu_pc = "raised"
             /\ raised = "RuntimeError"
             /\ part_count = 0
             /\ DOMAIN partition = {}
             /\ DOMAIN actual_plan = {}

\* a plan was chosen on a device whose highest occupancy is above the ceiling:
\* the chosen plan is below the highest occupancy, and a valid plan with more
\* elements per block was passed over for its occupancy
C13_Witness ==
    /\ gpu_pc = "_partition_mesh"
    /\ SomeValid
    /\ OccupancyThreshold = OccupancyCap
    /\ \E par \in Range(Candidates) : device[par] > device[plan.flux_par]
    /\ \E par \in Range(Candidates) :
          /\ device[par] # InvalidPlan
          /\ device[par] < OccupancyThreshold
          /\ elements_per_block(par) > elements_per_block(plan.flux_par)

(***************************************************************************)
(* Zero elimination                                                        *)
(***************************************************************************)
\* the boundary flux terms of a template whose boundary field is zero
ZeroBoundaryTerms(t) ==
    {i \in DOMAIN t.fluxes :
        /\ t.fluxes[i].is_bpair
        /\ \A k \in DOMAIN t.fluxes[i].bfield : t.fluxes[i].bfield[k] = ZERO}

\* those of them whose flux reads nothing but zero field expressions
ZeroValuedTerms(t) ==
    {i \in ZeroBoundaryTerms(t) :
        \A fc \in t.fluxes[i].op.deps :
            fc_field_expr_of(t.fluxes[i], fc) = ZERO}

\* the template without its flux term i
RemoveFluxTerm(t, i) ==
    [t EXCEPT !.result =
        [j \in DOMAIN t.result |->
            SelectSeq(t.result[j], LAMBDA r : ~(r.k = "flux" /\ r.i = i))]]

\* call c, finished, ends as a run of template t alone on c's bindings does
EndsAs(c, t) ==
    \A ords \in IterationOrders(FluxCollector(prepared_optemplate(face_groups, t))) :
        LET alone == RunFrom(compile(face_groups, t, ords).code,
                             heap[VarsObj(c)], 1, face_groups)
        IN /\ mapper[c].status = "done" => alone.ok /\ alone.out = outputs[c]
           /\ mapper[c].status = "failed" => ~alone.ok

\* C14 as stated: a template with a boundary flux term whose boundary field is
\* the zero sentinel yields, for all bindings, the outputs of the template
\* with that term removed.
C14_ZeroBoundaryFieldRemovable ==
    \A c \in CallIds :
        mapper[c].status \in {"done", "failed"} =>
            \A i \in ZeroBoundaryTerms(compile_log[mapper[c].executor]) :
                EndsAs(c, RemoveFluxTerm(compile_log[mapper[c].executor], i))

\* C14 amended: a template with a boundary flux term all of whose flux
\* dependencies resolve to the zero sentinel (zero boundary field, and a flux
\* that reads the boundary side only) yields, for all bindings, the outputs
\* of the template with that term removed.
C14_ZeroValuedTermRemovable ==
    \A c \in CallIds :
        mapper[c].status \in {"done", "failed"} =>
            \A i \in ZeroValuedTerms(compile_log[mapper[c].executor]) :
                EndsAs(c, RemoveFluxTerm(compile_log[mapper[c].executor], i))

\* a call has returned the outputs of a template with such a term, on a
\* discretization where the term's boundary has faces
C14_Witness ==
    \E c \in CallIds :
        /\ mapper[c].status = "done"
        /\ \E i \in ZeroValuedTerms(compile_log[mapper[c].executor]) :
              face_groups[BoundaryFluxKind(
                  compile_log[mapper[c].executor].fluxes[i].tag)] >= 1

(***************************************************************************)
(* Flux batches over several face groups                                   *)
(***************************************************************************)
\* the instruction call c executes next
CurrentInsn(c) == CodeOf(c).instructions[mapper[c].pc]

\* call c is about to execute a FluxBatchAssign whose arguments are bound
AtFluxBatch(c) ==
    /\ mapper[c].status = "running"
    /\ mapper[c].pc <= Len(CodeOf(c).instructions)
    /\ CurrentInsn(c).op = "FluxBatchAssign"
    /\ \A n \in DOMAIN CurrentInsn(c).arg_specs :
          CurrentInsn(c).arg_specs[n][1] \in DOMAIN heap[mapper[c].context]

\* the lifted contribution of face groups 1..count to flux n of the batch
RECURSIVE LiftedSum(_, _, _, _)
LiftedSum(insn, args, n, count) ==
    IF count = 0 THEN volume_zeros
    ELSE lift_flux(insn.fluxes[n], compiled_func(insn, count, args)[n],
                   LiftedSum(insn, args, n, count - 1))

\* C15: executing a FluxBatchAssign on a discretization with any number of
\* face groups of the batch's kind leaves, under each flux name of the batch,
\* one array holding the lifted flux contribution of every face group.
C15_EveryFaceGroupLifted ==
    [][\A c \in CallIds :
          (AtFluxBatch(c) /\ Step(c)) =>
              LET insn == CurrentInsn(c)
                  before == heap[mapper[c].context]
                  args == [n \in DOMAIN insn.arg_specs |->
                              before[insn.arg_specs[n][1]]]
                  after == heap'[mapper[c].context]
              IN \A n \in DOMAIN insn.names :
                    /\ insn.names[n] \in DOMAIN after
                    /\ after[insn.names[n]]
                          = LiftedSum(insn, args, n, face_groups[insn.kind])]_vars

(***************************************************************************)
(* The partition search, one iteration at a time                           *)
(***************************************************************************)

\* Number of elements a labelling puts into its fullest block.
LargestBlock(part) ==
    Max({Cardinality({e \in DOMAIN part : part[e] = b}) : b \in Range(part)})

\* The least s with s * p >= count: ceil(count / p).
CeilingOf(count, p) ==
    CHOOSE s \in 0..count : s * p >= count /\ \A t \in 0..(s - 1) : t * p < count

\* The test of the search on a realized plan: s does not grow and the
\* occupancy is the preferred plan's.
WithinPreferred(actual) ==
    /\ actual.flux_par.s <= plan.flux_par.s
    /\ actual.occupancy = plan.occupancy

\* Every labelling the partitioner can return for the current block count
\* gives, when the attempt raises nothing, a plan with the preferred p and
\* with s the ceiling of the largest block's size over p.
RealizedPlanShape ==
    gpu_pc = "_partition_mesh" /\ part_count <= MaxPartCount =>
        \A part \in [elements_of(mesh) -> 0..(part_count - 1)] :
            LET r == partition_attempt(mesh, plan, part)
            IN r.raised = "" =>
                  /\ r.plan.flux_par.p = plan.flux_par.p
                  /\ r.plan.flux_par.s
                        = CeilingOf(LargestBlock(part), plan.flux_par.p)

\* The search starts from (number of elements div preferred elements per
\* block) + 1 blocks.
InitialBlockCount ==
    gpu_pc = "_partition_mesh" /\ DOMAIN actual_plan = {} =>
        part_count = mesh.n \div elements_per_block(plan.flux_par) + 1

\* One iteration that realizes a plan: it stops with this plan and this
\* partition exactly when the plan passes the test, and otherwise the next
\* iteration has one block more.
SearchIteration ==
    gpu_pc = "_partition_mesh" /\ raised' = "" =>
        /\ actual_plan'.flux_par.p = plan.flux_par.p
        /\ plan' = plan
        /\ (gpu_pc' = "_build_blocks") <=> WithinPreferred(actual_plan')
        /\ WithinPreferred(actual_plan') =>
              /\ part_count' = part_count
              /\ Range(partition') \subseteq 0..(part_count - 1)
              /\ actual_plan'.flux_par.s
                    = CeilingOf(LargestBlock(partition'), plan.flux_par.p)
        /\ ~WithinPreferred(actual_plan') =>
              /\ part_count' = part_count + 1
              /\ gpu_pc' = "_partition_mesh"

\* C16: in each iteration of the partition search with target block count k
\* the realized plan keeps the preferred p and has s = ceil(largest block /
\* p); the search stops with this plan and this iteration's partition if and
\* only if s does not exceed the preferred s and the occupancy equals the
\* preferred plan's; otherwise the next attempt uses k + 1 blocks; the first
\* k is (number of elements div preferred elements per block) + 1.
C16_SearchIterationRule ==
    /\ [](RealizedPlanShape /\ InitialBlockCount)
    /\ [][SearchIteration]_vars

\* A first attempt was rejected only because its s exceeds the preferred s,
\* and the search is now at one block more.
C16_Witness ==
    /\ gpu_pc = "_partition_mesh"
    /\ DOMAIN actual_plan # {}
    /\ actual_plan.flux_par.s > plan.flux_par.s
    /\ actual_plan.occupancy = plan.occupancy
    /\ part_count = mesh.n \div elements_per_block(plan.flux_par) + 2

(***************************************************************************)
(* The tally of the partition search against the built face storage map    *)
(***************************************************************************)

\* The face storage map is complete: _build_face_storage_map has returned.
MapBuilt == gpu_pc \in {"ext_dof_smem_check", "built"}

\* For every block the tally of the search equals the length of the block's
\* ext_faces_to_me.
TallyEqualsToMe ==
    MapBuilt =>
        \A b \in DOMAIN blocks :
            ext_iface_tally(mesh, partition, b) = Len(blocks[b].ext_faces_to_me)

\* The accepted plan's max_ext_faces is the largest ext_faces_to_me length.
MaxExtFacesRealized ==
    MapBuilt => actual_plan.max_ext_faces = max_ext_faces_to_me(blocks)

\* The constructor's check of the estimate passes.
EstimateCheckPasses ==
    gpu_pc = "ext_dof_smem_check" => gpu_pc' = "built" /\ raised' = ""

\* C17: the external-face count the partition search tallies for a block
\* equals, for every block, the length of the block's ext_faces_to_me after
\* the face storage map is built; the accepted plan's max_ext_faces equals
\* the maximum of len(ext_faces_to_me) over all blocks and the constructor's
\* check of the shared-memory estimate holds.
C17_TallyMatchesFaceStorage ==
    /\ [](TallyEqualsToMe /\ MaxExtFacesRealized)
    /\ [][EstimateCheckPasses]_vars

\* The constructor has passed its check for a partition of two or more
\* blocks with different tallies, one of them holding a boundary face.
C17_Witness ==
    /\ gpu_pc = "built"
    /\ \E b, c \in DOMAIN blocks :
          /\ Len(blocks[b].ext_faces_to_me) < Len(blocks[c].ext_faces_to_me)
          /\ Len(blocks[b].ext_faces_to_me) > 0
    /\ \E i \in DOMAIN face_storage :
          face_storage[i].cls = "GPUBoundaryFaceStorage"

(***************************************************************************)
(* Which records the ext lists hold                                        *)
(***************************************************************************)

\* Positions of a record in the ext_faces_to_me lists and in the
\* ext_faces_from_me lists of all blocks.
ToMePositions(r) ==
    {<<b, i>> \in (DOMAIN blocks) \X (1..Cardinality(DOMAIN face_storage)) :
        /\ i \in DOMAIN blocks[b].ext_faces_to_me
        /\ blocks[b].ext_faces_to_me[i] = r}

FromMePositions(r) ==
    {<<b, i>> \in (DOMAIN blocks) \X (1..Cardinality(DOMAIN face_storage)) :
        /\ i \in DOMAIN blocks[b].ext_faces_from_me
        /\ blocks[b].ext_faces_from_me[i] = r}

ListPositions(r) == Cardinality(ToMePositions(r)) + Cardinality(FromMePositions(r))

\* Records of interior face pairs whose two elements lie in different
\* blocks, and records of boundary face pairs.
CrossBlockRecords ==
    UNION {{IntRef(fp[1]), IntRef(fp[2])} :
              fp \in {p \in Range(int_face_pairs(mesh)) :
                         partition[p[1][1]] # partition[p[2][1]]}}

BoundaryPairRecords ==
    UNION {{IntRef(loc), BdryRef(loc)} : loc \in Range(bdry_face_pairs(mesh))}

RegisteredIffExternal ==
    \A r \in DOMAIN face_storage :
        ListPositions(r) > 0 <=> r \in CrossBlockRecords \cup BoundaryPairRecords

\* C18: after the face storage map is built a record appears in some block's
\* ext_faces_to_me or ext_faces_from_me iff it belongs to a boundary face
\* pair or to an interior face pair whose elements lie in different blocks
\* (the records of an interior pair inside one block are in no ext list), and
\* each registered record appears in exactly one list position.
C18_RegisteredOnceIffExternal ==
    MapBuilt =>
        /\ RegisteredIffExternal
        /\ \A r \in DOMAIN face_storage : ListPositions(r) <= 1

\* C18, amended: the same equivalence; a record of a cross-block interior
\* pair appears exactly twice, once in the ext_faces_to_me of the opposite
\* element's block and once in the ext_faces_from_me of its own block; of a
\* boundary pair the boundary record appears once, in the ext_faces_to_me of
\* the element's block, and the interior record once, in the
\* ext_faces_from_me of that block; no list holds a record twice.
RegisteredPlaces ==
    MapBuilt =>
        /\ RegisteredIffExternal
        /\ \A r \in CrossBlockRecords :
              /\ \E i \in 1..Cardinality(DOMAIN face_storage) :
                    ToMePositions(r)
                       = {<<partition[face_storage[r].opposite[2]], i>>}
              /\ \E i \in 1..Cardinality(DOMAIN face_storage) :
                    FromMePositions(r) = {<<partition[r[2]], i>>}
        /\ \A loc \in Range(bdry_face_pairs(mesh)) :
              /\ \E i \in 1..Cardinality(DOMAIN face_storage) :
                    ToMePositions(BdryRef(loc)) = {<<partition[loc[1]], i>>}
              /\ FromMePositions(BdryRef(loc)) = {}
              /\ \E i \in 1..Cardinality(DOMAIN face_storage) :
                    FromMePositions(IntRef(loc)) = {<<partition[loc[1]], i>>}
              /\ ToMePositions(IntRef(loc)) = {}

NoRecordTwiceInAList ==
    \A r \in DOMAIN face_storage :
        /\ Cardinality(ToMePositions(r)) <= 1
        /\ Cardinality(FromMePositions(r)) <= 1

C18_RegisteredOncePerListIffExternal ==
    RegisteredPlaces /\ NoRecordTwiceInAList

\* A built map with an interior pair inside one block, an interior pair
\* across two blocks and a boundary pair.
C18_Witness ==
    /\ gpu_pc = "built"
    /\ CrossBlockRecords # {}
    /\ BoundaryPairRecords # {}
    /\ \E r \in DOMAIN face_storage : ListPositions(r) = 0

(***************************************************************************)
(* The generated gather_flux kernels, statement by statement               *)
(* (jit/__init__.py 37-71, 297-407, 409-508).  A face group has            *)
(* face_length nodes per face; the values a statement reads are kept as    *)
(* the places they are read from.                                          *)
(***************************************************************************)
MaxFaceLength == 2      \* nodes of a face
MaxFacePairs == 1       \* face pairs of a face group

INVALID_ELEMENT == -1   \* hedge._internal.INVALID_ELEMENT

\* a faulty variant: the flipped side reads the same places
map_field_component_NoFlip(kernel, flux_idx, expr, is_flipped) ==
    LET where == IF expr.is_local THEN "loc" ELSE "opp"
        arg_name == kernel.reads[<<flux_idx, expr>>]
    IN IF is_no_arg(arg_name) THEN <<"0">> ELSE <<arg_name, where>>

\* FluxToCodeMapper.map_field_component: "0" or "%s_it[%s_idx]"
map_field_component(kernel, flux_idx, expr, is_flipped) ==
    LET where == IF expr.is_local # is_flipped THEN "loc" ELSE "opp"
        arg_name == kernel.reads[<<flux_idx, expr>>]
    IN IF is_no_arg(arg_name) THEN <<"0">> ELSE <<arg_name, where>>

\* FluxToCodeMapper.map_normal: "fp.%s.normal[%d]"
map_normal(is_flipped) == IF is_flipped THEN "opp" ELSE "loc"

\* the dependencies the flux flux_idx of a kernel reads
kernel_deps(kernel, flux_idx) ==
    {r[2] : r \in {q \in DOMAIN kernel.reads : q[1] = flux_idx}}

\* "fp.loc.face_jacobian * " + FluxToCodeMapper(flux_idx, fvi, is_flipped)(flux)
flux_code(kernel, flux_idx, is_flipped) ==
    [face_jacobian |-> "loc",
     normal |-> map_normal(is_flipped),
     fields |-> [fc \in kernel_deps(kernel, flux_idx) |->
                    map_field_component(kernel, flux_idx, fc, is_flipped)]]

\* the Assign statements of the inner loop, in the order they are generated
assign_stmts(kernel) ==
    Flatten([n \in 1..kernel.flux_count |->
        [w \in DOMAIN kernel.sides |->
            [flux_idx |-> n - 1,
             where |-> kernel.sides[w],
             tgt_idx |-> IF kernel.sides[w] = "loc" THEN "i"
                         ELSE "opp_write_map[i]",
             rhs |-> flux_code(kernel, n - 1, kernel.sides[w] = "opp")]]])

\* %s_fof_base of a side of a face pair
fof_base(fg, side) ==
    fg.face_length * (side.local_el_number * fg.face_count + side.face_id)

\* the value a right-hand side has at node i: every %s_it[%s_idx] is the
\* entry at %s_ebi + %s_idx_list[i]
rhs_at(rhs, i) ==
    [face_jacobian |-> rhs.face_jacobian,
     normal |-> rhs.normal,
     fields |-> [fc \in DOMAIN rhs.fields |->
                    IF rhs.fields[fc] = <<"0">> THEN <<"0">>
                    ELSE <<rhs.fields[fc][1], rhs.fields[fc][2], i>>]]

\* one Assign: fof%d_it[%s_fof_base+%s] = ...
exec_assign_stmt(buf, stmt, fg, k, i) ==
    LET fp == fg.face_pairs[k]
        slot == IF stmt.tgt_idx = "i"
                THEN fof_base(fg, fp.loc) + i
                ELSE fof_base(fg, fp.opp) + fp.opp_native_write_map[i]
        written == [fp |-> k, i |-> i, where |-> stmt.where,
                    value |-> rhs_at(stmt.rhs, i)]
    IN [buf EXCEPT ![stmt.flux_idx][slot] = Append(@, written)]

RECURSIVE exec_assign_stmts(_, _, _, _, _)
exec_assign_stmts(buf, stmts, fg, k, i) ==
    IF stmts = <<>> THEN buf
    ELSE exec_assign_stmts(exec_assign_stmt(buf, stmts[1], fg, k, i),
                           Tail(stmts), fg, k, i)

\* Face groups: face pair k joins face 1 of element k-1 to face 0 of element
\* k with some write map; a boundary face pair has no opposite element.
WriteMaps(len) == [0..(len - 1) -> 0..(len - 1)]

face_pair(k, interior, wm) ==
    [loc |-> [local_el_number |-> k - 1, face_id |-> 1],
     opp |-> [local_el_number |-> IF interior THEN k ELSE INVALID_ELEMENT,
              face_id |-> 0],
     opp_native_write_map |-> wm]

FaceGroups(interior) ==
    UNION {{[face_length |-> len, face_count |-> faces_per_el,
             face_pairs |-> [k \in 1..count |-> face_pair(k, interior, wms[k])]]
              : wms \in [1..count -> WriteMaps(len)]}
              : <<len, count>> \in (1..MaxFaceLength) \X (1..MaxFacePairs)}

\* the flux batches kernels are generated for
KernelBatches ==
    {[fluxes |-> <<IntFlux(CentralFlux, <<"u">>)>>, kind |-> InteriorFluxKind],
     [fluxes |-> <<IntFlux(VectorFlux, <<"u", "v">>),
                   IntFlux(CentralFlux, <<"v">>)>>, kind |-> InteriorFluxKind],
     [fluxes |-> <<IntFlux(VectorFlux, <<"u", ZERO>>)>>, kind |-> InteriorFluxKind],
     [fluxes |-> <<IntFlux(LiftFlux, <<"v">>)>>, kind |-> InteriorFluxKind],
     [fluxes |-> <<BdryFlux(CentralFlux, <<"u">>, <<"bc">>, "t1")>>,
      kind |-> BoundaryFluxKind("t1")],
     [fluxes |-> <<BdryFlux(LiftFlux, <<"u">>, <<ZERO>>, "t2")>>,
      kind |-> BoundaryFluxKind("t2")],
     [fluxes |-> <<BdryFlux(VectorFlux, <<"u", "v">>, <<ZERO, "v">>, "t2")>>,
      kind |-> BoundaryFluxKind("t2")]}

GeneratedKernels(batch) ==
    {make_flux_batch_assign([n \in DOMAIN batch.fluxes |-> get_var_name(n - 1)],
                            batch.fluxes, batch.kind, ords).compiled_func
        : ords \in IterationOrders(batch.fluxes)}

\* flux%d_on_faces of a face group, nothing written yet
empty_fof(kernel, fg) ==
    [f \in 0..(kernel.flux_count - 1) |->
        [slot \in 0..(fg.face_length * fg.face_count
                        * (Len(fg.face_pairs) + 1) - 1) |-> <<>>]]

\* gather_flux has been called and stands before the first face pair
InitKernel ==
    /\ JitIdle
    /\ GpuIdle
    /\ XferIdle
    /\ ToolIdle
    /\ \E batch \in KernelBatches :
          \E kernel \in GeneratedKernels(batch) :
             \E fg \in FaceGroups(batch.kind.cls = "InteriorFluxKind") :
                /\ kern = [pc |-> "face_pairs", kernel |-> kernel, fg |-> fg,
                           fp |-> 1, i |-> 0]
                /\ fof = empty_fof(kernel, fg)

\* one pass of `for (unsigned i = 0; i < fg.face_length(); ++i)`
GatherNode ==
    /\ kern.pc = "face_pairs"
    /\ fof' = exec_assign_stmts(fof, assign_stmts(kern.kernel), kern.fg,
                                kern.fp, kern.i)
    /\ kern' = IF kern.i + 1 < kern.fg.face_length
               THEN [kern EXCEPT !.i = kern.i + 1]
               ELSE IF kern.fp < Len(kern.fg.face_pairs)
               THEN [kern EXCEPT !.fp = kern.fp + 1, !.i = 0]
               ELSE [kern EXCEPT !.pc = "returned"]
    /\ UNCHANGED <<jit_vars, gpu_vars, xfer_vars, tool_vars>>

NextKernel == GatherNode

SpecKernel == InitKernel /\ [][NextKernel]_vars

\* The passes (face pair, node) the kernel has completed.
NodesDone ==
    IF kern.pc = "idle" THEN {}
    ELSE {<<k, i>> \in (1..Len(kern.fg.face_pairs)) \X (0..(kern.fg.face_length - 1)) :
             \/ kern.pc = "returned"
             \/ k < kern.fp
             \/ k = kern.fp /\ i < kern.i}

\* The places (flux, slot) where the pass (k, i) has written.
WritesOf(f, k, i) ==
    {<<slot, n>> \in (DOMAIN fof[f]) \X (1..(2 * MaxFacePairs * MaxFaceLength)) :
        /\ n \in DOMAIN fof[f][slot]
        /\ fof[f][slot][n].fp = k
        /\ fof[f][slot][n].i = i}

\* What the claim says a write holds: dependency fc of flux f read at node i
\* on the local element if it is flagged local and on the opposite otherwise
\* (0 for a zero dependency), with the local normal; swapped for the
\* opposite output.
Other(where) == IF where = "loc" THEN "opp" ELSE "loc"

LocalValue(f, i) ==
    [face_jacobian |-> "loc",
     normal |-> "loc",
     fields |-> [fc \in kernel_deps(kern.kernel, f) |->
                    IF is_no_arg(kern.kernel.reads[<<f, fc>>]) THEN <<"0">>
                    ELSE <<kern.kernel.reads[<<f, fc>>],
                           IF fc.is_local THEN "loc" ELSE "opp", i>>]]

Swapped(v) ==
    [face_jacobian |-> v.face_jacobian,
     normal |-> Other(v.normal),
     fields |-> [fc \in DOMAIN v.fields |->
                    IF v.fields[fc] = <<"0">> THEN <<"0">>
                    ELSE <<v.fields[fc][1], Other(v.fields[fc][2]),
                           v.fields[fc][3]>>]]

IsInteriorKernel == kern.kernel.sides = <<"loc", "opp">>

TwoWritesPerNode ==
    kern.pc # "idle" /\ IsInteriorKernel =>
        \A f \in DOMAIN fof : \A <<k, i>> \in NodesDone :
            LET fp == kern.fg.face_pairs[k]
                loc_slot == fof_base(kern.fg, fp.loc) + i
                opp_slot == fof_base(kern.fg, fp.opp) + fp.opp_native_write_map[i]
            IN /\ Cardinality(WritesOf(f, k, i)) = 2
               /\ \E n, m \in 1..(2 * MaxFacePairs * MaxFaceLength) :
                     /\ WritesOf(f, k, i) = {<<loc_slot, n>>, <<opp_slot, m>>}
                     /\ fof[f][loc_slot][n].value = LocalValue(f, i)
                     /\ fof[f][opp_slot][m].value = Swapped(LocalValue(f, i))

IsPermutation(wm) == \A j \in DOMAIN wm : \E i \in DOMAIN wm : wm[i] = j

FaceSlots(fg, side) ==
    {fof_base(fg, side) + j : j \in 0..(fg.face_length - 1)}

EverySlotOnce ==
    /\ kern.pc = "returned"
    /\ IsInteriorKernel
    /\ \A k \in DOMAIN kern.fg.face_pairs :
          IsPermutation(kern.fg.face_pairs[k].opp_native_write_map)
    => \A f \in DOMAIN fof : \A k \in DOMAIN kern.fg.face_pairs :
          \A slot \in FaceSlots(kern.fg, kern.fg.face_pairs[k].loc)
                         \cup FaceSlots(kern.fg, kern.fg.face_pairs[k].opp) :
             Len(fof[f][slot]) = 1

LocalWriteOnly ==
    kern.pc # "idle" /\ ~IsInteriorKernel =>
        \A f \in DOMAIN fof : \A <<k, i>> \in NodesDone :
            \E n \in 1..(2 * MaxFacePairs * MaxFaceLength) :
               /\ WritesOf(f, k, i)
                     = {<<fof_base(kern.fg, kern.fg.face_pairs[k].loc) + i, n>>}
               /\ fof[f][fof_base(kern.fg, kern.fg.face_pairs[k].loc) + i][n].value
                     = LocalValue(f, i)

\* C19: an interior flux kernel writes, for every face pair, flux and face
\* node i, exactly two outputs: the local one at loc_fof_base+i, each
\* dependency read from the local element if it is flagged local and from the
\* opposite element otherwise, and the opposite one at
\* opp_fof_base+opp_write_map[i], the same formula with the roles of local
\* and opposite swapped in every field read and in the normal; when
\* opp_write_map is a permutation every output slot of both faces is written
\* exactly once.  A boundary kernel writes only the local output at
\* loc_fof_base+i.
C19_KernelWrites == TwoWritesPerNode /\ EverySlotOnce /\ LocalWriteOnly

\* An interior kernel with a zero dependency has returned from a face group
\* whose write maps are permutations, one not the identity.
C19_Witness ==
    /\ kern.pc = "returned"
    /\ IsInteriorKernel
    /\ \A k \in DOMAIN kern.fg.face_pairs :
          IsPermutation(kern.fg.face_pairs[k].opp_native_write_map)
    /\ \E k \in DOMAIN kern.fg.face_pairs :
          kern.fg.face_pairs[k].opp_native_write_map[0] # 0
    /\ \E r \in DOMAIN kern.kernel.reads : is_no_arg(kern.kernel.reads[r])

(***************************************************************************)
(* The zero sentinel among the arguments of a flux batch                   *)
(***************************************************************************)

\* the references of a batch in the order _get_flux_var_info visits them
visit_order(fluxes, ords) ==
    Flatten([n \in DOMAIN fluxes |->
                [j \in DOMAIN ords[fluxes[n]] |-> <<n - 1, ords[fluxes[n]][j]>>]])

\* position of the first reference to the slot arg_name in a visit order
first_reference(insn, visits, arg_name) ==
    CHOOSE j \in DOMAIN visits :
        /\ RefSlot(insn, visits[j]) = arg_name
        /\ \A h \in 1..(j - 1) : RefSlot(insn, visits[h]) # arg_name

ZeroRefs(insn) == {r \in Refs(insn) : RefExpr(insn, r) = ZERO}

\* A zero dependency has the entry 0 in the table, and the generated code
\* reads it as the literal 0 on either side.
ZeroHasNoSlot(insn) ==
    \A r \in ZeroRefs(insn) :
        /\ RefSlot(insn, r) = NoArg
        /\ RefSlot(insn, r) \notin Range(insn.compiled_func.arg_names)
        /\ \A is_flipped \in BOOLEAN :
              map_field_component(insn.compiled_func, r[1], r[2], is_flipped)
                 = <<"0">>

\* No argument spec is of the zero sentinel, and every slot is referenced by
\* a dependency that is not zero.
NoSlotIsZero(insn) ==
    \A n \in DOMAIN insn.arg_specs :
        /\ insn.arg_specs[n][1] # ZERO
        /\ \E r \in Refs(insn) \ ZeroRefs(insn) :
              /\ RefSlot(insn, r) = insn.compiled_func.arg_names[n]
              /\ \A is_flipped \in BOOLEAN :
                    map_field_component(insn.compiled_func, r[1], r[2],
                                        is_flipped)[1]
                       = insn.compiled_func.arg_names[n]

\* arg_names and arg_specs have one length, and the names are arg0, arg1,
\* ... in the order in which the slots are first referenced.
NamesInOrderOfFirstReference(insn) ==
    /\ Len(insn.compiled_func.arg_names) = Len(insn.arg_specs)
    /\ \A n \in DOMAIN insn.compiled_func.arg_names :
          insn.compiled_func.arg_names[n] = <<"arg", n - 1>>
    /\ \E ords \in IterationOrders(insn.fluxes) :
          LET visits == visit_order(insn.fluxes, ords)
          IN \A n \in DOMAIN insn.compiled_func.arg_names :
                \A m \in DOMAIN insn.compiled_func.arg_names :
                   n < m =>
                      first_reference(insn, visits, <<"arg", n - 1>>)
                         < first_reference(insn, visits, <<"arg", m - 1>>)

\* C20: a flux dependency whose field expression is the zero sentinel is
\* never given an argument slot: it adds no entry to arg_names or arg_specs,
\* it is recorded as 0 in the flux-index/dependency table and the generated
\* kernel reads it as the literal 0; arg_names and arg_specs have equal
\* length, with names arg0, arg1, ... in order of first reference.
C20_ZeroTakesNoSlot ==
    \A insn \in AllBatches :
        /\ ZeroHasNoSlot(insn)
        /\ NoSlotIsZero(insn)
        /\ NamesInOrderOfFirstReference(insn)

\* A compiled batch with a zero dependency next to a dependency with a
\* slot, and a compiled batch with two slots.
C20_Witness ==
    /\ \E insn \in AllBatches :
          /\ ZeroRefs(insn) # {}
          /\ Len(insn.arg_specs) >= 1
    /\ \E insn \in AllBatches : Len(insn.compiled_func.arg_names) >= 2

\* ---------------------------------------------------------------------------
\* C21: differentiation batches

\* call c is about to execute a DiffBatchAssign whose field is bound
AtDiffBatch(c) ==
    /\ mapper[c].status = "running"
    /\ mapper[c].pc <= Len(CodeOf(c).instructions)
    /\ CurrentInsn(c).op = "DiffBatchAssign"
    /\ CurrentInsn(c).field \in DOMAIN heap[mapper[c].context]

\* the reference derivative along every axis, each computed once
AxisDerivatives(field) == [i \in 1..Dimensions |-> diff_rst(i - 1, field)]

\* C21: executing a DiffBatchAssign with n names on a discretization of d
\* dimensions computes the reference-direction derivative of the field
\* exactly d times, once per axis and whatever n is, and then binds every
\* name to the combination of those same d derivatives for its operator.
C21_DerivativePerAxisOnce ==
    [][\A c \in CallIds :
          (AtDiffBatch(c) /\ Step(c)) =>
              LET insn == CurrentInsn(c)
                  calls == diff_rst_calls(insn)
                  before == heap[mapper[c].context]
                  after == heap'[mapper[c].context]
              IN /\ Len(calls) = Dimensions
                 /\ \A i \in 0..(Dimensions - 1) :
                       Cardinality({j \in DOMAIN calls :
                                       calls[j] = <<i, insn.field>>}) = 1
                 /\ \A n \in DOMAIN insn.names :
                       /\ insn.names[n] \in DOMAIN after
                       /\ after[insn.names[n]]
                             = diff_rst_to_xyz(insn.operators[n],
                                   AxisDerivatives(before[insn.field]))]_vars

\* a call has executed a DiffBatchAssign of two names, both bound and
\* different
C21_Witness ==
    \E c \in CallIds :
        /\ mapper[c].status = "running"
        /\ mapper[c].pc > 1
        /\ LET insn == CodeOf(c).instructions[mapper[c].pc - 1]
               ctx == heap[mapper[c].context]
           IN /\ insn.op = "DiffBatchAssign"
              /\ Len(insn.names) = 2
              /\ Range(insn.names) \subseteq DOMAIN ctx
              /\ ctx[insn.names[1]] # ctx[insn.names[2]]

\* ---------------------------------------------------------------------------
\* C22: flux batches bind their names

\* C22: after a FluxBatchAssign instruction has been executed, every name of
\* its names list is bound in the execution context, on every
\* discretization, also on one where the batch's kind has no face group.
C22_FluxNamesBound ==
    [][\A c \in CallIds :
          (AtFluxBatch(c) /\ Step(c) /\ mapper'[c].status = "running") =>
              Range(CurrentInsn(c).names)
                  \subseteq DOMAIN heap'[mapper[c].context]]_vars

\* ---------------------------------------------------------------------------
\* C23: the final assertion of _build_face_storage_map

\* every block exports as many faces as it imports
ExtListsBalanced ==
    \A b \in DOMAIN blocks :
        Len(blocks[b].ext_faces_from_me) = Len(blocks[b].ext_faces_to_me)

\* C23: when every face pair has been entered in the face storage map, every
\* block has ext_faces_from_me and ext_faces_to_me of one length, for every
\* mesh and partition, and so the assertion that ends
\* _build_face_storage_map does not fail.
C23_FinalAssertionHolds ==
    /\ [](gpu_pc = "final_assert" => ExtListsBalanced)
    /\ [][gpu_pc = "final_assert" => raised' = raised]_vars

\* the assertion has been passed by a map in which one block has a face on
\* another block and a face on the boundary and another block has fewer
\* external faces
C23_Witness ==
    /\ gpu_pc = "ext_dof_smem_check"
    /\ \E b, c \in DOMAIN blocks :
          /\ ImportedFrom(b) > 0
          /\ BoundaryFacesOf(b) > 0
          /\ Len(blocks[c].ext_faces_from_me) < Len(blocks[b].ext_faces_from_me)

\* ---------------------------------------------------------------------------
\* C24: the parity of max_faces

\* the summand of max_faces for block b of a partition (226-229)
block_faces(m, part, b) ==
    Len(blocks_of(part)[b]) * faces_per_el + ext_iface_tally(m, part, b)

\* the partitions part_graph may return in the pass the search is about to make
SearchPartitions == [elements_of(mesh) -> 0..(part_count - 1)]

\* C24: in every iteration of the partition search, for every block the
\* number of its elements times the faces per element plus the external
\* faces tallied for it is even, so that the realized plan's max_faces is
\* even and the parity assertion does not fail; the meshes report every
\* interior interface in both directions.
C24_MaxFacesEven ==
    /\ (gpu_pc = "_partition_mesh" /\ part_count <= MaxPartCount) =>
          \A part \in SearchPartitions :
              /\ \A b \in Range(part) : block_faces(mesh, part, b) % 2 = 0
              /\ partition_attempt(mesh, plan, part).raised # "AssertionError"
    /\ DOMAIN actual_plan # {} => actual_plan.max_faces % 2 = 0

\* a pass of the search has realized a plan for a partition in which a block
\* has one boundary face and one face on another block
C24_Witness ==
    /\ gpu_pc = "_build_blocks"
    /\ actual_plan.max_faces > 0
    /\ \E b \in Range(partition) :
          /\ Cardinality({i \in DOMAIN tag_to_boundary(mesh) :
                             partition[tag_to_boundary(mesh)[i][1]] = b}) = 1
          /\ ext_iface_tally(mesh, partition, b) = 2

\* ---------------------------------------------------------------------------
\* C30: where a duplicated record is found

\* the records registered as duplicated
Duplicated == {r \in DOMAIN face_storage : face_storage[r].dup_block # NoBlock}

\* f.dup_block.ext_faces_to_me[f.dup_ext_face_number] is f (positions of the
\* code count from 0, positions of a sequence from 1)
FoundAtItsNumber(r) ==
    LET f == face_storage[r]
    IN /\ f.dup_block \in DOMAIN blocks
       /\ f.dup_ext_face_number
             \in 0..(Len(blocks[f.dup_block].ext_faces_to_me) - 1)
       /\ blocks[f.dup_block].ext_faces_to_me[f.dup_ext_face_number + 1] = r

\* every position of every ext_faces_to_me list is the number of the record
\* it holds
NumbersWithoutGaps ==
    \A b \in DOMAIN blocks :
        \A i \in DOMAIN blocks[b].ext_faces_to_me :
            LET f == face_storage[blocks[b].ext_faces_to_me[i]]
            IN f.dup_block = b /\ f.dup_ext_face_number = i - 1

\* the block of the other side: of an interior record's opposite, of a
\* boundary record's interior side
DupBlockIsOtherSide(r) ==
    LET f == face_storage[r]
    IN /\ f.opposite \in DOMAIN face_storage
       /\ face_storage[f.opposite].cls = "GPUInteriorFaceStorage"
       /\ f.dup_block = face_storage[f.opposite].native_block
       /\ f.cls = "GPUInteriorFaceStorage" => f.dup_block # f.native_block

\* C30: after the face storage map is built, every record f registered as
\* duplicated is the entry of f.dup_block.ext_faces_to_me at position
\* f.dup_ext_face_number; the numbers are the positions 0..len-1 of the list
\* without gaps; f.dup_block is the native block of f.opposite for an
\* interior record and the native block of the interior side for a boundary
\* record.
C30_DuplicateFoundAtItsNumber ==
    MapBuilt =>
        /\ \A r \in Duplicated : FoundAtItsNumber(r) /\ DupBlockIsOtherSide(r)
        /\ NumbersWithoutGaps

\* a map was built in which one block's list holds an interior record of
\* another block and then a boundary record
C30_Witness ==
    /\ gpu_pc = "built"
    /\ \E b \in DOMAIN blocks :
          /\ Len(blocks[b].ext_faces_to_me) >= 2
          /\ \E i, j \in DOMAIN blocks[b].ext_faces_to_me :
                /\ i < j
                /\ face_storage[blocks[b].ext_faces_to_me[i]].cls
                      = "GPUInteriorFaceStorage"
                /\ face_storage[blocks[b].ext_faces_to_me[j]].cls
                      = "GPUBoundaryFaceStorage"

(***************************************************************************)
(* Host-to-device and device-to-host transfer of fields                    *)
(***************************************************************************)
MaxNodes == 2
MaxAlign == 2
MaxXferElements == 3

\* the local discretizations and devices the transfer routines are tried on
LocalDiscretizations ==
    {LocalDiscretization(nc, fnc) :
        nc \in 1..MaxNodes, fnc \in 1..MaxFaceLength}

XferDiscrs ==
    {CudaDiscr(l, DeviceData(a)) :
        l \in {d \in LocalDiscretizations : d.face_node_count <= d.node_count},
        a \in 1..MaxAlign}

\* a double that single precision holds, and one it does not (2^24 + 1)
Exact24 == 16777216
FieldValues == {1, Exact24 + 1}

\* numpy.float32(v) of a double holding a whole number below 2^25: above
\* 2^24 the odd numbers have no single-precision value and go to an even
\* neighbour
float32(v) == IF v <= Exact24 THEN v ELSE v - (v % 2)

\* discr.find_el_range(el_id): the slice of element el_id in a host vector
find_el_range(ldis, el_id) ==
    [start |-> el_id * ldis.node_count, stop |-> (el_id + 1) * ldis.node_count]

\* block.cpu_slices of _build_blocks (320)
cpu_slices(ldis, block) ==
    [i \in DOMAIN block.elements |-> find_el_range(ldis, block.elements[i])]

\* self.int_dof_count = exact_div(plan.int_dof_smem(), plan.float_size): the
\* floats of flux_par.total() elements, rounded up to the alignment
int_dof_count(d, pl) ==
    align_dtype(d.devdata, total(pl.flux_par) * d.ldis.node_count)

\* gpu_dof_count()
gpu_dof_count(d, pl, blks) == int_dof_count(d, pl) * Cardinality(DOMAIN blks)

\* len(self): the degrees of freedom of the host vector
host_dof_count(d, m) == m.n * d.ldis.node_count

\* a faulty variant: every block starts at offset 0
el_offsets_NoBlockOffset(d, pl, blks) ==
    Flatten([n \in 1..Cardinality(DOMAIN blks) |->
        [i \in DOMAIN blks[n - 1].elements |->
            [el_offset |-> (i - 1) * d.ldis.node_count,
             cpu_slice |-> cpu_slices(d.ldis, blks[n - 1])[i]]]])

\* the passes of the two nested loops of volume_to_gpu and volume_from_gpu
\* in the order they run: el_offset and cpu_slice of each pass
el_offsets(d, pl, blks) ==
    Flatten([n \in 1..Cardinality(DOMAIN blks) |->
        [i \in DOMAIN blks[n - 1].elements |->
            [el_offset |-> (n - 1) * int_dof_count(d, pl)
                              + (i - 1) * d.ldis.node_count,
             cpu_slice |-> cpu_slices(d.ldis, blks[n - 1])[i]]]])

\* the last pass of a list that assigns position j of the vector it fills
LastPass(passes, covers(_, _), j) ==
    LET hits == {n \in DOMAIN passes : covers(passes[n], j)}
    IN IF hits = {} THEN 0 ELSE Max(hits)

\* volume_to_gpu of a scalar field: copy_vec is numpy.empty of float32, so a
\* position no pass assigns holds whatever the memory held (junk)
volume_to_gpu(d, pl, blks, field, junk) ==
    LET passes == el_offsets(d, pl, blks)
        el_length == d.ldis.node_count
        covers(ps, j) == ps.el_offset <= j /\ j < ps.el_offset + el_length
    IN [j \in 0..(gpu_dof_count(d, pl, blks) - 1) |->
            LET n == LastPass(passes, covers, j)
            IN IF n = 0 THEN junk
               ELSE float32(field[passes[n].cpu_slice.start
                                     + (j - passes[n].el_offset)])]

\* volume_from_gpu of a scalar field; result is numpy.empty as well
volume_from_gpu(d, pl, blks, m, copied_vec, junk) ==
    LET passes == el_offsets(d, pl, blks)
        covers(ps, k) == ps.cpu_slice.start <= k /\ k < ps.cpu_slice.stop
    IN [k \in 0..(host_dof_count(d, m) - 1) |->
            LET n == LastPass(passes, covers, k)
            IN IF n = 0 THEN junk
               ELSE copied_vec[passes[n].el_offset
                                  + (k - passes[n].cpu_slice.start)]]

\* the scalar volume fields of the discretization
Fields == [0..(host_dof_count(discr, mesh) - 1) -> FieldValues]

\* a client calls volume_to_gpu with a scalar field
VolumeToGpu ==
    /\ gpu_pc = "built"
    /\ xfer.pc = "idle"
    /\ \E field \in Fields : \E junk \in FieldValues :
          xfer' = [pc |-> "on_gpu", field |-> field,
                   gpu |-> volume_to_gpu(discr, actual_plan, blocks, field, junk)]
    /\ UNCHANGED <<jit_vars, gpu_vars, kern_vars, embedding, tool_vars>>

\* the client calls volume_from_gpu with the vector it got
VolumeFromGpu ==
    /\ xfer.pc = "on_gpu"
    /\ \E junk \in FieldValues :
          xfer' = [pc |-> "on_host", field |-> xfer.field, gpu |-> xfer.gpu,
                   result |-> volume_from_gpu(discr, actual_plan, blocks, mesh,
                                              xfer.gpu, junk)]
    /\ UNCHANGED <<jit_vars, gpu_vars, kern_vars, embedding, tool_vars>>

\* construction of a cuda Discretization up to the point where it is built
Construct ==
    \/ _partition_mesh
    \/ _build_blocks
    \/ InteriorFacePair
    \/ BoundaryFacePair
    \/ FinalAssert
    \/ CheckExtDofSmem

InitTransfer ==
    /\ GpuStart({m \in Meshes : m.n <= MaxXferElements}, XferDiscrs)
    /\ JitIdle
    /\ KernIdle
    /\ XferIdle
    /\ ToolIdle

\* a discretization is built and a client sends a volume field to the device
\* and fetches it back
NextVolume ==
    \/ Construct
    \/ VolumeToGpu
    \/ VolumeFromGpu

SpecVolume == InitTransfer /\ [][NextVolume]_vars

\* the device ranges of the passes: pairwise disjoint, the k-th element of
\* block b at b*int_dof_count + k*node_count, inside the range of its block
RangesAsLaidOut ==
    LET passes == el_offsets(discr, actual_plan, blocks)
        el_length == discr.ldis.node_count
        idc == int_dof_count(discr, actual_plan)
    IN /\ \A n1, n2 \in DOMAIN passes :
             n1 # n2 =>
                \/ passes[n1].el_offset + el_length <= passes[n2].el_offset
                \/ passes[n2].el_offset + el_length <= passes[n1].el_offset
       /\ \A b \in DOMAIN blocks : \A k \in DOMAIN blocks[b].elements :
             \E n \in DOMAIN passes :
                /\ passes[n].cpu_slice
                      = find_el_range(discr.ldis, blocks[b].elements[k])
                /\ passes[n].el_offset = b * idc + (k - 1) * el_length
                /\ passes[n].el_offset + el_length <= (b + 1) * idc

\* C25: for every scalar volume field f, volume_from_gpu(volume_to_gpu(f))
\* equals f; volume_to_gpu places the degrees of freedom of distinct
\* elements in pairwise disjoint ranges of the device vector, the k-th
\* element of block b at offset b*int_dof_count + k*node_count and inside
\* the range of block b, and volume_from_gpu reads every element back from
\* the same range.
C25_RoundTrip ==
    xfer.pc = "on_host" =>
        /\ xfer.result = xfer.field
        /\ RangesAsLaidOut

\* what C25 says of the layout, and the round trip up to single precision
RoundTripInSingle ==
    xfer.pc = "on_host" =>
        /\ xfer.result = [k \in DOMAIN xfer.field |-> float32(xfer.field[k])]
        /\ RangesAsLaidOut

(***************************************************************************)
(* The embedding of a host boundary field in the device boundary field     *)
(***************************************************************************)
TAG_ALL == "TAG_ALL"

\* the tags a client asks for: all faces, the left end, the right end, and a
\* tag no face carries
BoundaryTags == {TAG_ALL, "none"} \cup Tags

\* mesh.tag_to_boundary.get(tag, []): "t1" tags the left end of a chain,
\* "t2" its right end
mesh_tag_to_boundary(m, tag) ==
    CASE tag = TAG_ALL -> tag_to_boundary(m)
      [] tag = "t1" -> SelectSeq(tag_to_boundary(m), LAMBDA ef : ef[2] = 0)
      [] tag = "t2" -> SelectSeq(tag_to_boundary(m), LAMBDA ef : ef[2] = 1)
      [] OTHER -> <<>>

\* gpu_boundary_embedding(tag): host index -> device index.  The host
\* boundary vector of a tag holds the face_len nodes of each of its faces
\* one after the other (len(bdry.nodes)); cpu_base counts them up.
gpu_boundary_embedding(d, m, fs, map, tag) ==
    LET faces == mesh_tag_to_boundary(m, tag)
        face_len == d.ldis.face_node_count
        bdry_stor(i) == fs[fs[map[faces[i]]].opposite]
        all_bdry == \A i \in DOMAIN faces :
                       bdry_stor(i).cls = "GPUBoundaryFaceStorage"
        result == [c \in 0..(Len(faces) * face_len - 1) |->
                      bdry_stor(c \div face_len + 1).gpu_bdry_index_in_floats
                         + (c % face_len)]
    IN IF all_bdry /\ \A c \in DOMAIN result : result[c] >= 0
       THEN [raised |-> "", result |-> result]
       ELSE [raised |-> "AssertionError", result |-> <<>>]

\* a client asks for the embedding of a tag; the method is memoized
GpuBoundaryEmbedding ==
    /\ gpu_pc = "built"
    /\ \E tag \in BoundaryTags \ DOMAIN embedding :
          embedding' = embedding @@
              (tag :> gpu_boundary_embedding(discr, mesh, face_storage, fsm, tag))
    /\ UNCHANGED <<jit_vars, gpu_vars, kern_vars, xfer, tool_vars>>

\* a discretization is built and its boundary embeddings are asked for
NextEmbedding ==
    \/ Construct
    \/ GpuBoundaryEmbedding

SpecEmbedding == InitTransfer /\ [][NextEmbedding]_vars

\* the boundary records of the face storage map
BoundaryRecords ==
    {r \in DOMAIN face_storage :
        face_storage[r].cls = "GPUBoundaryFaceStorage"}

\* the device indices of the nodes of a boundary record
DeviceRange(r) ==
    LET base == face_storage[r].gpu_bdry_index_in_floats
    IN base..(base + discr.ldis.face_node_count - 1)

\* C26: for every boundary tag, gpu_boundary_embedding(tag) maps every host
\* boundary node index of the tag to a device index in
\* [0, aligned_boundary_floats), no two host indices to the same device
\* index, and the nodes of one boundary face to consecutive device indices
\* starting at the face's gpu_bdry_index_in_floats; the device ranges of
\* distinct boundary faces do not overlap.
C26_EmbeddingInjective ==
    /\ \A tag \in DOMAIN embedding :
          LET e == embedding[tag]
              faces == mesh_tag_to_boundary(mesh, tag)
              face_len == discr.ldis.face_node_count
          IN /\ e.raised = ""
             /\ DOMAIN e.result = 0..(Len(faces) * face_len - 1)
             /\ \A c \in DOMAIN e.result :
                   e.result[c] \in 0..(discr.aligned_boundary_floats - 1)
             /\ \A c1, c2 \in DOMAIN e.result :
                   c1 # c2 => e.result[c1] # e.result[c2]
             /\ \A i \in DOMAIN faces : \A t \in 0..(face_len - 1) :
                   e.result[(i - 1) * face_len + t]
                      = face_storage[BdryRef(faces[i])].gpu_bdry_index_in_floats + t
    /\ gpu_pc = "built" =>
          \A r1, r2 \in BoundaryRecords :
              r1 # r2 => DeviceRange(r1) \cap DeviceRange(r2) = {}

\* the embedding of all faces of a chain was computed for faces of two nodes
\* on a device that aligns to two floats, and the embedding of one end as well
C26_Witness ==
    /\ {TAG_ALL, "t2"} \subseteq DOMAIN embedding
    /\ Len(mesh_tag_to_boundary(mesh, TAG_ALL)) = 2
    /\ discr.ldis.face_node_count = 2
    /\ discr.devdata.align = 2
    /\ embedding["t2"].result # embedding[TAG_ALL].result
    /\ embedding["t2"].result[0] > 0

(***************************************************************************)
(* AdamsBashforthTimeStepper                                               *)
(***************************************************************************)
MaxOrder == 5
MaxCalls == 7
MaxStartupEvals == 2

\* AdamsBashforthTimeStepper.__init__: len(self.coefficients) is the order.
\* A right-hand-side value in f_history is named by the step it was
\* evaluated at: 0 for rhs(t, y) of the first call, k for rhs(t+dt, ynew) of
\* call k.
AdamsBashforthTimeStepper(order) ==
    [pc |-> "ready", order |-> order, f_history |-> <<>>,
     startup_stepper |-> TRUE, calls |-> 0,
     branch |-> "none", combined |-> 0,
     own_evals |-> 0, startup_evals |-> 0,
     raised |-> "", initargs |-> "none"]

InitAB ==
    /\ JitIdle
    /\ GpuIdle
    /\ KernIdle
    /\ XferIdle
    /\ closable = [pc |-> "idle"]
    /\ \E order \in 1..MaxOrder : ab = AdamsBashforthTimeStepper(order)

\* a faulty variant: the oldest entry stays
pop_Keep(f_history) == f_history

\* self.f_history.pop()
pop(f_history) == SubSeq(f_history, 1, Len(f_history) - 1)

\* __call__(y, t, dt, rhs) as call number k; the startup stepper, when it is
\* used, evaluates rhs m times
call(self, k, m) ==
    LET order == self.order
        first == Len(self.f_history) = 0
        h1 == IF first THEN Append(self.f_history, 0) ELSE self.f_history
        startup == Len(h1) < order
    IN IF startup /\ ~self.startup_stepper
       THEN [self EXCEPT !.raised = "AttributeError", !.f_history = h1,
                         !.calls = k]
       ELSE IF ~startup /\ Len(h1) # order
       THEN [self EXCEPT !.raised = "AssertionError", !.f_history = h1,
                         !.calls = k]
       ELSE LET h2 == IF startup THEN h1 ELSE pop(h1)
            IN [self EXCEPT
                  !.f_history = <<k>> \o h2,
                  !.startup_stepper =
                      IF startup /\ Len(h1) = order - 1 THEN FALSE ELSE @,
                  !.calls = k,
                  !.branch = IF startup THEN "startup" ELSE "ab",
                  !.combined = IF startup THEN 0 ELSE Len(h1),
                  !.own_evals = (IF first THEN 1 ELSE 0) + 1,
                  !.startup_evals = IF startup THEN m ELSE 0]

\* one step call on the stepper
StepCall ==
    /\ ab.pc = "ready"
    /\ ab.raised = ""
    /\ ab.calls < MaxCalls
    /\ \E m \in 1..MaxStartupEvals :
          ab' = call(ab, ab.calls + 1, m)
    /\ UNCHANGED <<jit_vars, gpu_vars, kern_vars, xfer_vars, closable>>

\* __getinitargs__: return (self.order, self.startup_stepper)
__getinitargs__(self) ==
    IF self.startup_stepper THEN "returned" ELSE "AttributeError"

\* a client (pickling, copying) asks for the constructor arguments
GetInitArgs ==
    /\ ab.pc = "ready"
    /\ ab.raised = ""
    /\ ab' = [ab EXCEPT !.initargs = __getinitargs__(ab)]
    /\ UNCHANGED <<jit_vars, gpu_vars, kern_vars, xfer_vars, closable>>

NextAB ==
    \/ StepCall
    \/ GetInitArgs

SpecAB == InitAB /\ [][NextAB]_vars

Min(a, b) == IF a < b THEN a ELSE b

\* the history after k calls: min(k+1, n) entries, newest first, and the
\* branch call k took
HistoryAndBranch ==
    LET k == ab.calls
        n == ab.order
    IN /\ ab.raised = ""
       /\ Len(ab.f_history) = Min(k + 1, n)
       /\ Len(ab.f_history) <= n
       /\ \A i \in DOMAIN ab.f_history : ab.f_history[i] = k - (i - 1)
       /\ ab.branch = "startup" <=> k <= n - 1
       /\ ab.branch = "ab" <=> k > n - 1
       /\ ab.branch = "ab" => ab.combined = n

\* C27 as stated: for a stepper of order n >= 1, after k >= 1 step calls the
\* right-hand-side history holds exactly min(k+1, n) entries, newest first,
\* never more than n; call k uses the startup stepper iff k <= n-1 and the
\* Adams-Bashforth combination of exactly n history entries otherwise; the
\* right-hand side is evaluated twice in the first call and exactly once in
\* every later call.
C27_HistoryAndEvaluations ==
    ab.pc = "ready" /\ ab.calls >= 1 =>
        /\ HistoryAndBranch
        /\ ab.own_evals + ab.startup_evals = IF ab.calls = 1 THEN 2 ELSE 1

\* C27 amended: the history and the choice of branch are as stated; the
\* stepper itself evaluates the right-hand side twice in the first call and
\* once in every later call, and a call that uses the startup stepper has in
\* addition the evaluations the startup stepper makes, none otherwise.
C27_HistoryAndOwnEvaluations ==
    ab.pc = "ready" /\ ab.calls >= 1 =>
        /\ HistoryAndBranch
        /\ ab.own_evals = IF ab.calls = 1 THEN 2 ELSE 1
        /\ ab.branch = "ab" => ab.startup_evals = 0

\* a stepper of order three or more has gone through its startup calls and
\* has made two Adams-Bashforth steps
C27_Witness ==
    /\ ab.pc = "ready"
    /\ ab.order >= 3
    /\ ab.calls = ab.order + 1
    /\ ab.branch = "ab"
    /\ Len(ab.f_history) = ab.order

\* C28: for a stepper of any order, after any number of step calls the
\* startup stepper is never accessed once it has been released: no later
\* step call reads it, and __getinitargs__ still returns the pair (order,
\* startup stepper) without error.
C28_ReleasedNeverAccessed ==
    ab.pc = "ready" => ab.raised = "" /\ ab.initargs # "AttributeError"

(***************************************************************************)
(* Closable                                                                *)
(***************************************************************************)
MaxCloseCalls == 4

\* Closable.__init__; log holds, per call made on the object, whether it
\* came through __exit__, whether it invoked do_close and how it ended
Closable ==
    [pc |-> "open", is_closed |-> FALSE, do_close_calls |-> 0, log |-> <<>>]

InitClosable ==
    /\ JitIdle
    /\ GpuIdle
    /\ KernIdle
    /\ XferIdle
    /\ ab = [pc |-> "idle"]
    /\ closable = Closable

\* a faulty variant: is_closed is set only when do_close returns
close_NoFinally(self, via, do_close_raises) ==
    IF ~self.is_closed
    THEN [self EXCEPT
            !.do_close_calls = @ + 1,
            !.is_closed = ~do_close_raises,
            !.log = Append(@, [via |-> via, do_close |-> TRUE,
                               outcome |-> IF do_close_raises THEN "raised"
                                           ELSE "returned"])]
    ELSE [self EXCEPT
            !.log = Append(@, [via |-> via, do_close |-> FALSE,
                               outcome |-> "returned"])]

\* close(): do_close under try/finally, is_closed set in the finally clause;
\* do_close is the subclass's and returns or raises
close(self, via, do_close_raises) ==
    IF ~self.is_closed
    THEN [self EXCEPT
            !.do_close_calls = @ + 1,
            !.is_closed = TRUE,
            !.log = Append(@, [via |-> via, do_close |-> TRUE,
                               outcome |-> IF do_close_raises THEN "raised"
                                           ELSE "returned"])]
    ELSE [self EXCEPT
            !.log = Append(@, [via |-> via, do_close |-> FALSE,
                               outcome |-> "returned"])]

\* a client calls close()
Close ==
    /\ closable.pc = "open"
    /\ Len(closable.log) < MaxCloseCalls
    /\ \E do_close_raises \in BOOLEAN :
          closable' = close(closable, <<"close", "None">>, do_close_raises)
    /\ UNCHANGED <<jit_vars, gpu_vars, kern_vars, xfer_vars, ab>>

\* a with block over the object is left, normally or by an exception:
\* __exit__(exc_type, exc_value, traceback) calls self.close()
Exit ==
    /\ closable.pc = "open"
    /\ Len(closable.log) < MaxCloseCalls
    /\ \E exc_type \in {"None", "Exception"} : \E do_close_raises \in BOOLEAN :
          closable' = close(closable, <<"__exit__", exc_type>>, do_close_raises)
    /\ UNCHANGED <<jit_vars, gpu_vars, kern_vars, xfer_vars, ab>>

NextClosable ==
    \/ Close
    \/ Exit

SpecClosable == InitClosable /\ [][NextClosable]_vars

\* C29: over any sequence of close() calls and context-manager exits,
\* do_close is invoked at most once, by the first close; is_closed is true
\* after the first close, whether it returned or raised; every later close
\* is a no-op, also when do_close raised an exception.
C29_ClosedOnce ==
    /\ [](closable.pc = "open" =>
            /\ closable.do_close_calls <= 1
            /\ closable.do_close_calls = (IF closable.log = <<>> THEN 0 ELSE 1)
            /\ closable.is_closed <=> closable.log # <<>>
            /\ \A i \in DOMAIN closable.log :
                  /\ closable.log[i].do_close <=> i = 1
                  /\ i > 1 => closable.log[i].outcome = "returned")
    /\ [][closable.pc = "open" /\ closable.is_closed =>
             /\ closable'.is_closed
             /\ closable'.do_close_calls = closable.do_close_calls]_vars

\* the first close came through __exit__ and its do_close raised; a close()
\* and another exit followed
C29_Witness ==
    /\ closable.pc = "open"
    /\ Len(closable.log) >= 3
    /\ closable.log[1].via = <<"__exit__", "Exception">>
    /\ closable.log[1].outcome = "raised"
    /\ closable.log[2].via = <<"close", "None">>
    /\ closable.log[3].via = <<"__exit__", "None">>

====
